---- MODULE Spec2Model ----
(***************************************************************************)
(* Model of the Go/WASM host bridge of BlazesRus/ModernWasm.               *)
(*                                                                         *)
(*   Spec        the Handle Table of the canonical runtime                 *)
(*               (src/go-runtime.svelte.ts, class ModernGo)                *)
(*   SpecWorker  the Handle Table of the worker variant                    *)
(*               (src/LegacyApproach/go-runtime.worker.ts, class ModernGo) *)
(*   SpecLife    the execution lifecycle of the canonical runtime: run,    *)
(*               _resume, wasmExit, timers and the pending event           *)
(***************************************************************************)
EXTENDS Integers, Sequences, FiniteSets, TLC

(***************************************************************************)
(* Bounds of the model.                                                    *)
(***************************************************************************)
\* largest reference count storeValue is allowed to build up
MaxRef == 2
\* how far below zero finalizeRef may push the count of a dead id
MaxUnder == 1
\* finalizeRef reads an arbitrary uint32: the model draws it from
\* 0 .. NSentinels + MaxExtraId
MaxExtraId == 2
\* calls of run on one ModernGo
MaxRuns == 2
\* timers the guest schedules
MaxTimers == 2
\* event objects the function wrappers create
MaxEvents == 2
\* guest frames on the call stack (run or resume, and resumes nested in them)
MaxDepth == 2
\* calls of the exit import
MaxExits == 2
\* objects the host creates while the guest runs (errors, constructed objects)
MaxFresh == 2
\* growths of the guest's memory
MaxGrow == 2
\* length of the guest's byte buffer and of the host's Uint8Array
GoLen == 3
JsLen == 2

(***************************************************************************)
(* Host values.  A JavaScript value is modelled by its name; TypeOf gives  *)
(* what `typeof` answers for it.                                           *)
(***************************************************************************)
\* the seven values bound at construction, in id order
SentinelValues == <<"NaN", "zero", "null", "true", "false", "globalThis", "go">>

NSentinels == Len(SentinelValues)

\* values that are interned on demand: an object and a function
DynValues == {"objA", "fnC"}

\* the objects the host creates on demand: thrown errors and the results of
\* `new`, in the order of their creation
FreshNames == <<"fresh1", "fresh2", "fresh3", "fresh4", "fresh5">>

FreshValues == {FreshNames[i] : i \in 1..Len(FreshNames)}

\* numbers that cross as plain float64, and undefined
PlainNumbers == {"num1", "numNeg3_5"}

HostValues ==
  {SentinelValues[i] : i \in 1..NSentinels} \cup DynValues \cup PlainNumbers \cup {"undefined"}

TypeOf(v) ==
  CASE v \in {"NaN", "zero"} \cup PlainNumbers -> "number"
    [] v \in {"true", "false"} -> "boolean"
    [] v \in {"null", "globalThis", "go", "objA", "u8"} \cup FreshValues -> "object"
    [] v = "strB" -> "string"
    [] v = "symD" -> "symbol"
    [] v \in {"fnC", "fnM", "fnBoom"} -> "function"
    [] OTHER -> "undefined"

\* a hole of a JavaScript array (reading it yields undefined)
Empty == "<empty>"

(***************************************************************************)
(* Reference counts are JavaScript numbers: a finite integer, Infinity or  *)
(* NaN.  `absent` is an index the array does not hold.                     *)
(***************************************************************************)
Num(n) == [k |-> "num", n |-> n]
Infinity == [k |-> "inf", n |-> 0]
NaNCount == [k |-> "nan", n |-> 0]
Absent == [k |-> "absent", n |-> 0]

\* x + 1 on a JavaScript number (ToNumber(undefined) is NaN)
Incr_ByTwo(c) ==
  CASE c.k = "num" -> Num(c.n + 2)
    [] c.k = "inf" -> Infinity
    [] OTHER -> NaNCount

Incr(c) ==
  CASE c.k = "num" -> Num(c.n + 1)
    [] c.k = "inf" -> Infinity
    [] OTHER -> NaNCount

\* x - 1 on a JavaScript number: Infinity - 1 is Infinity, undefined - 1 is NaN
Decr(c) ==
  CASE c.k = "num" -> Num(c.n - 1)
    [] c.k = "inf" -> Infinity
    [] OTHER -> NaNCount

\* a test `<= 0` in place of `=== 0`
IsZero_OrBelow(c) == c.k = "num" /\ c.n <= 0

IsZero(c) == c.k = "num" /\ c.n = 0

IsPositive(c) == c.k = "inf" \/ (c.k = "num" /\ c.n > 0)

(***************************************************************************)
(* JavaScript arrays, indexed from 0, as functions on 0 .. length-1.       *)
(***************************************************************************)
ArrLen(a) == Cardinality(DOMAIN a)

ArrGet(a, i, dflt) == IF i \in DOMAIN a THEN a[i] ELSE dflt

\* a[i] = x: extends the array, leaving holes, when i is past the end
ArrSet(a, i, x, hole) ==
  LET top == IF i >= ArrLen(a) THEN i ELSE ArrLen(a) - 1
  IN  [j \in 0..top |-> IF j = i THEN x ELSE IF j \in DOMAIN a THEN a[j] ELSE hole]

\* Map.get / Map.set / Map.delete of _ids
MapHas(m, v) == v \in DOMAIN m

MapSet(m, v, id) == [w \in DOMAIN m \cup {v} |-> IF w = v THEN id ELSE m[w]]

MapDelete(m, v) == [w \in DOMAIN m \ {v} |-> m[w]]

VARIABLES
  \* ModernGo fields of the Handle Table
  _values, _goRefCounts, _ids, _idPool,
  \* the 8-byte result slot the last storeValue wrote
  slot,
  \* history: interned[id] is the value storeValue last bound to id
  interned,
  \* history: handedOut[id] is the set of values id has been bound to
  handedOut,
  \* history: which call came last
  lastOp

handleVars == <<_values, _goRefCounts, _ids, _idPool, slot, interned, handedOut, lastOp>>

VARIABLES
  \* ModernGo.exited
  exited,
  \* goRuntimeState: isInitialized, isRunning, hasExited, error
  goRuntimeState,
  \* ModernGo._inst is set
  _inst,
  \* ModernGo._resolveExitPromise: 0 (undefined) or the run call whose
  \* exitPromise it resolves
  _resolveExitPromise,
  \* per run call: the exitPromise created by run, the promise run returned,
  \* and where the call stands ("entry", "await", "done")
  exitPromise, runPromise, runPc,
  \* ModernGo._pendingEvent: 0 (null) or the number of the event object
  _pendingEvent,
  \* the number the next event object gets
  nextEvent,
  \* a function made by _makeFuncWrapper exists
  hasWrapper,
  \* ModernGo._scheduledTimeouts (its keys) and _nextCallbackTimeoutID
  _scheduledTimeouts, _nextCallbackTimeoutID,
  \* the timers set with setTimeout that have neither fired nor been cleared
  hostTimers,
  \* the guest frames on the JavaScript call stack, innermost last
  stack,
  \* history: how the last call of _resume ended, and whether exit had fired
  resumeLog,
  \* history: how many times the exit import has fired
  exitCalls

lifeVars ==
  <<exited, goRuntimeState, _inst, _resolveExitPromise, exitPromise, runPromise, runPc,
    _pendingEvent, nextEvent, hasWrapper, _scheduledTimeouts, _nextCallbackTimeoutID,
    hostTimers, stack, resumeLog, exitCalls>>

VARIABLES
  \* history: the last syscall/js value import the guest called: its name, the
  \* operand it loaded, the property key, how it ended ("returned", "threw":
  \* caught inside the import, "fault": the exception left the import), the
  \* value returned or thrown, the flag byte it wrote ("none" if it wrote none)
  \* and the length it wrote (-1 if it wrote none)
  opLog,
  \* the number of the next object the host creates (an Error, a constructed
  \* object)
  nextFresh,
  \* the bytes of the guest's slice and of the host's Uint8Array
  goBytes, jsBytes,
  \* the int64 field of the copyBytes frame that receives the count
  countField,
  \* history: the last copyBytes import: its name, whether the host operand was
  \* a byte array, the length of the guest's slice, both byte arrays before the
  \* call, the count field before the call and the flag byte written
  copyLog

opsVars == <<opLog, nextFresh, goBytes, jsBytes, countField, copyLog>>

VARIABLES
  \* the ArrayBuffer instance.exports.mem.buffer currently is: growth detaches
  \* the buffer and puts the next one in its place
  memBuffer,
  \* the buffer the DataView this.mem is over (0: this.mem is undefined)
  mem,
  \* history: whether the last import that went through this.mem found it
  \* over the current buffer ("fresh") or over a detached one ("stale")
  memLog

memVars == <<memBuffer, mem, memLog>>

VARIABLES
  \* ModernGo.argv
  argv,
  \* history: the last call of the guest's entry export: the argument vector
  \* run laid out, the address of each string, the int64 cells run wrote and
  \* the two parameters it passed
  entryLog

argVars == <<argv, entryLog>>

VARIABLES
  \* the fields of the ModernGo objects of a page that loads two guests: for
  \* each object its Handle Table, its memory view, its _pendingEvent, and the
  \* memory of the guest instance it runs
  bridges

VARIABLES
  \* ModernWasmExecutor.loadPromise: 0 (null) or the number of the
  \* _performLoad call whose promise it holds
  loadPromise,
  \* per _performLoad call: where it stands ("fetch", "init", "settled") and
  \* the value its promise was fulfilled with
  performLoad,
  \* per loadWasm call: the _performLoad promise it awaits, whether it started
  \* that load, where it stands ("await", "returned") and what it returned
  callers,
  \* the loadWasm calls whose continuation is in the microtask queue
  microtasks,
  \* per guest instance the runtime manager loaded: ModernGo.exited of its
  \* bridge; the last one is ModernGoWasmRuntimeManager.wasmInstance
  guestExited,
  \* history: the last callFunction: how it ended and what held at the call
  callLog

execVars == <<loadPromise, performLoad, callers, microtasks, guestExited, callLog>>

VARIABLES
  \* WasiLoader.moduleRegistry of the keyed loader: the keys it holds, each
  \* with the url its module was compiled from
  moduleRegistry,
  \* WasiLoader.state of the keyed loader
  keyedState,
  \* per loadWasm(key, url) call of the keyed loader: its arguments, where it
  \* stands, the approach it took, how often it fetched and compiled, whether
  \* a load of its key had succeeded when it was made, and what it returned
  keyedCalls

keyedVars == <<moduleRegistry, keyedState, keyedCalls>>

VARIABLES
  \* ModernWorkerManager.worker and .workerApi: 0 (null) or the number of the
  \* Worker they hold / wrap
  worker,
  workerApi,
  \* ModernWorkerManager.initialized
  initialized,
  \* every Worker the manager constructed: "live" or "terminated"
  workers,
  \* per init() / boot() call: where it stands, and the Worker whose
  \* initialize it awaits
  managerCalls,
  \* history: the last operation of the manager that ran a step; whether a
  \* boot() has succeeded with no terminate() / dispose() call since; and the
  \* last reverseSearch: what held when it was called and how it went
  managerLast,
  bootedSince,
  searchLog

managerVars == <<worker, workerApi, initialized, workers, managerCalls,
                 managerLast, bootedSince, searchLog>>

VARIABLES
  \* WasiLoader.state (src/wasi-loader.svelte.ts): url, isLoading, progress,
  \* error and wasiModule; a module is named by the url it was loaded from
  wasiState,
  \* per loadWasm(url) call: its url, the await it stands at, what it
  \* returned and the state it left when it returned
  wasiCalls

wasiVars == <<wasiState, wasiCalls>>

VARIABLES
  \* the worker runtime's ModernWorkerManager.state (without the logs):
  \* isInitialized, isRunning, hasExited, error, lastOperation and
  \* _wasmInstance (0: null; exports and memoryUsage are set with it)
  wmState,
  \* ModernWorkerManager.goInstance: the number of the ModernGo it holds
  goInstance,
  \* every ModernGo the manager constructed: exited, _inst (0: undefined),
  \* the ids in _scheduledTimeouts whose host timer is pending, and
  \* _nextCallbackTimeoutID
  gos,
  \* the instances created so far
  wmInstances,
  \* history: the last host timer that fired: the ModernGo that scheduled
  \* it, the manager's goInstance at that moment, and how _resume went
  timerLog

resetVars == <<wmState, goInstance, gos, wmInstances, timerLog>>

VARIABLES
  \* the debugMessages store of the debug logger and goRuntimeState.logs; a
  \* message is named by the number of the log call that recorded it
  debugMessages,
  logs,
  \* the log calls that recorded a message so far, and how many of them were
  \* direct addDebugMessage calls
  logSerial,
  directCalls,
  \* history: every message addDebugMessage recorded, and every message
  \* debugLog recorded, in the order of the calls
  debugHistory,
  logHistory

logVars == <<debugMessages, logs, logSerial, directCalls, debugHistory, logHistory>>

hostVars == <<keyedVars, managerVars, wasiVars, resetVars, logVars>>

coreVars == <<handleVars, lifeVars, opsVars, memVars, argVars, bridges, execVars>>

\* what the keyed loader, and what the worker manager, never touch
keyedFrame == <<coreVars, managerVars, wasiVars, resetVars, logVars>>

managerFrame == <<coreVars, keyedVars, wasiVars, resetVars, logVars>>

wasiFrame == <<coreVars, keyedVars, managerVars, resetVars, logVars>>

resetFrame == <<coreVars, keyedVars, managerVars, wasiVars, logVars>>

logFrame == <<coreVars, keyedVars, managerVars, wasiVars, resetVars>>

auxRest == <<bridges, execVars, hostVars>>

auxVars == <<argVars, auxRest>>

vars == <<handleVars, lifeVars, opsVars, memVars, auxVars>>

(***************************************************************************)
(* ValueSlot: 8 bytes, little-endian.  The high 32-bit word is kept as its *)
(* top bit (the float's sign) and its low 31 bits, the low word whole.     *)
(***************************************************************************)
\* storeValue: const nanHead = 0x7ff80000
nanHead == 2146959360

Slot(sign, hi, lo) == [sign |-> sign, hi |-> hi, lo |-> lo]

\* DataView.setFloat64 of the numbers of the model (IEEE-754 binary64)
F64Bits(v) ==
  CASE v = "num1" -> Slot(0, 1072693248, 0)        \* 0x3FF00000 00000000
    [] v = "numNeg3_5" -> Slot(1, 1074528256, 0)   \* 0xC00C0000 00000000
    [] OTHER -> Slot(0, 0, 0)                      \* 0

\* DataView.getFloat64(...) === 0: true of +0 and of -0
BitsAreZero(s) == s.hi = 0 /\ s.lo = 0

\* isNaN(DataView.getFloat64(...)): exponent all ones, mantissa not zero
BitsAreNaN(s) ==
  /\ (s.hi \div 1048576) % 2048 = 2047
  /\ (s.hi % 1048576 # 0 \/ s.lo # 0)

\* the number a non-zero, non-NaN bit pattern stands for
F64OfBits(s) ==
  CASE s = Slot(0, 1072693248, 0) -> "num1"
    [] s = Slot(1, 1074528256, 0) -> "numNeg3_5"
    [] s = Slot(1, 0, 0) -> "negZero"               \* 0x80000000 00000000
    [] s = Slot(0, 2146435072, 0) -> "Infinity"     \* 0x7FF00000 00000000
    [] OTHER -> "otherNumber"

\* a switch on typeof v without the `v !== null` test
TypeFlag_NullAsObject(v) ==
  CASE TypeOf(v) = "object" -> 1
    [] TypeOf(v) = "string" -> 2
    [] TypeOf(v) = "symbol" -> 3
    [] TypeOf(v) = "function" -> 4
    [] OTHER -> 0

\* storeValue: the switch on typeof v
TypeFlag(v) ==
  CASE TypeOf(v) = "object" -> IF v # "null" THEN 1 ELSE 0
    [] TypeOf(v) = "string" -> 2
    [] TypeOf(v) = "symbol" -> 3
    [] TypeOf(v) = "function" -> 4
    [] OTHER -> 0

\* nanHead | typeFlag: the low three bits of nanHead are clear
HandleSlot(flag, id) == Slot(0, nanHead + flag, id)

(***************************************************************************)
(* ModernGo.loadValue                                                      *)
(***************************************************************************)
\* this._values[id]: reading past the end or a hole yields undefined
Resolve(vals, id) ==
  LET x == ArrGet(vals, id, Empty) IN IF x = Empty THEN "undefined" ELSE x

LoadValueFrom(vals, s) ==
  IF BitsAreZero(s) THEN "undefined"
  ELSE IF ~BitsAreNaN(s) THEN F64OfBits(s)
  ELSE Resolve(vals, s.lo)

loadValue(s) == LoadValueFrom(_values, s)

(***************************************************************************)
(* ModernGo.storeValue                                                     *)
(***************************************************************************)
\* values written as a plain float64 or as the fixed NaN pattern: no handle
CrossesAsHandle(v) ==
  ~(TypeOf(v) = "number" /\ v # "zero") /\ v # "undefined"

\* id = this._idPool.pop(); if (id === undefined) id = this._values.length
AllocId(pool, vals) == IF Len(pool) > 0 THEN pool[Len(pool)] ELSE ArrLen(vals)

\* mutant of PoolAfterPop: the id is read off the pool but never removed
PoolAfterPop_NotRemoved(pool) == pool

\* what pop() leaves of the pool
PoolAfterPop(pool) == IF Len(pool) > 0 THEN SubSeq(pool, 1, Len(pool) - 1) ELSE pool

\* the Handle Table after storeValue interned v, and the id it used
Intern(vals, counts, idmap, pool, v) ==
  IF MapHas(idmap, v)
  THEN [values |-> vals,
        counts |-> ArrSet(counts, idmap[v], Incr(ArrGet(counts, idmap[v], Absent)), Absent),
        ids |-> idmap, pool |-> pool, id |-> idmap[v]]
  ELSE LET id == AllocId(pool, vals)
       IN  [values |-> ArrSet(vals, id, v, Empty),
            counts |-> ArrSet(counts, id, Incr(Num(0)), Absent),
            ids |-> MapSet(idmap, v, id),
            pool |-> PoolAfterPop(pool), id |-> id]

\* a storeValue whose first test is `typeof v === 'number'` alone: 0 is
\* written as a float64 like every other number
EncodeSlot_ZeroAsFloat(v, id) ==
  IF TypeOf(v) = "number"
  THEN IF v = "NaN" THEN Slot(0, nanHead, 0) ELSE F64Bits(v)
  ELSE IF v = "undefined" THEN F64Bits("zero")
  ELSE HandleSlot(TypeFlag(v), id)

\* the slot storeValue writes for v once v has the given id
EncodeSlot(v, id) ==
  IF TypeOf(v) = "number" /\ v # "zero"
  THEN IF v = "NaN" THEN Slot(0, nanHead, 0) ELSE F64Bits(v)
  ELSE IF v = "undefined" THEN F64Bits("zero")
  ELSE HandleSlot(TypeFlag(v), id)

\* the count v would get stays within the model's bound
WithinRefBound(v) ==
  MapHas(_ids, v) => LET c == ArrGet(_goRefCounts, _ids[v], Absent)
                     IN  c.k = "num" => c.n < MaxRef

\* what storeValue(addr, v) does to the Handle Table and to the slot
StoreEffect(v) ==
  IF CrossesAsHandle(v)
  THEN LET t == Intern(_values, _goRefCounts, _ids, _idPool, v)
       IN  /\ _values' = t.values
           /\ _goRefCounts' = t.counts
           /\ _ids' = t.ids
           /\ _idPool' = t.pool
           /\ slot' = EncodeSlot(v, t.id)
           /\ interned' = ArrSet(interned, t.id, v, Empty)
           /\ handedOut' = ArrSet(handedOut, t.id, ArrGet(handedOut, t.id, {}) \cup {v}, {})
  ELSE /\ slot' = EncodeSlot(v, 0)
       /\ UNCHANGED <<_values, _goRefCounts, _ids, _idPool, interned, handedOut>>

storeValue(v) ==
  /\ WithinRefBound(v)
  /\ StoreEffect(v)
  /\ lastOp' = "storeValue"
  /\ UNCHANGED lifeVars
  /\ UNCHANGED opsVars
  /\ UNCHANGED memVars
  /\ UNCHANGED auxVars

\* storeValue(addr, v) on the current Handle Table: the table after it and the
\* slot it wrote
StoreResult(v) ==
  IF CrossesAsHandle(v)
  THEN LET t == Intern(_values, _goRefCounts, _ids, _idPool, v)
       IN  [values |-> t.values, slot |-> EncodeSlot(v, t.id)]
  ELSE [values |-> _values, slot |-> EncodeSlot(v, 0)]

\* loadValue(addr) right after storeValue(addr, v)
StoreThenLoad(v) == LoadValueFrom(StoreResult(v).values, StoreResult(v).slot)

(***************************************************************************)
(* ModernGo.finalizeRef                                                    *)
(***************************************************************************)
\* mutant of Release: the entry is cleared by every finalizeRef, whatever
\* count is left (the `=== 0` test is missing)
Release_ClearsAlways(vals, counts, idmap, pool, id) ==
  [values |-> ArrSet(vals, id, "null", Empty),
   counts |-> ArrSet(counts, id, Decr(ArrGet(counts, id, Absent)), Absent),
   ids |-> MapDelete(idmap, Resolve(vals, id)),
   pool |-> Append(pool, id)]

\* the Handle Table after finalizeRef(id)
Release(vals, counts, idmap, pool, id) ==
  LET c == Decr(ArrGet(counts, id, Absent))
      counts2 == ArrSet(counts, id, c, Absent)
  IN  IF IsZero(c)
      THEN [values |-> ArrSet(vals, id, "null", Empty),
            counts |-> counts2,
            ids |-> MapDelete(idmap, Resolve(vals, id)),
            pool |-> Append(pool, id)]
      ELSE [values |-> vals, counts |-> counts2, ids |-> idmap, pool |-> pool]

\* history: which kind of id the guest finalized: a sentinel, a dynamic id
\* that was live at the call, or a dynamic id that was not
FinalizeOp(id) ==
  IF id < NSentinels THEN "finalizeRef:sentinel"
  ELSE IF ArrGet(_goRefCounts, id, Absent).k = "num" /\ ArrGet(_goRefCounts, id, Absent).n > 0
       THEN "finalizeRef:live"
       ELSE "finalizeRef"

\* the count of a dead id is not pushed further below zero than the bound
WithinUnderBound(id) ==
  LET c == ArrGet(_goRefCounts, id, Absent) IN c.k = "num" => c.n > -MaxUnder

finalizeRef(id) ==
  /\ WithinUnderBound(id)
  /\ LET t == Release(_values, _goRefCounts, _ids, _idPool, id)
     IN  /\ _values' = t.values
         /\ _goRefCounts' = t.counts
         /\ _ids' = t.ids
         /\ _idPool' = t.pool
  /\ lastOp' = FinalizeOp(id)
  /\ UNCHANGED <<slot, interned, handedOut>>
  /\ UNCHANGED lifeVars
  /\ UNCHANGED opsVars
  /\ UNCHANGED memVars
  /\ UNCHANGED auxVars

(***************************************************************************)
(* The guest's own writes.  The slots lie in the guest's linear memory     *)
(* (this.mem is a view of instance.exports.mem): the guest can put any     *)
(* 8 bytes where an import will call loadValue.                            *)
(***************************************************************************)
\* bit patterns the guest writes itself: -0, +Infinity and a handle id it
\* was never given
GuestSlots == {Slot(1, 0, 0), Slot(0, 2146435072, 0), HandleSlot(1, NSentinels + MaxExtraId)}

guestWritesSlot(s) ==
  /\ slot # s
  /\ slot' = s
  /\ lastOp' = "guestWrite"
  /\ UNCHANGED <<_values, _goRefCounts, _ids, _idPool, interned, handedOut>>
  /\ UNCHANGED lifeVars
  /\ UNCHANGED opsVars
  /\ UNCHANGED memVars
  /\ UNCHANGED auxVars

(***************************************************************************)
(* ModernGo constructor: the lifecycle fields                              *)
(***************************************************************************)
\* a promise: pending, or fulfilled with a value
Pending == [s |-> "pending", v |-> "none"]

Fulfilled(v) == [s |-> "fulfilled", v |-> v]

Rejected(v) == [s |-> "rejected", v |-> v]

NoRuns == [k \in {} |-> Pending]

\* the field initialisers and the constructor body of ModernGo, and the
\* goRuntimeState the constructor leaves (isInitialized = true)
LifeConstructed ==
  /\ exited = FALSE
  /\ goRuntimeState =
       [isInitialized |-> TRUE, isRunning |-> FALSE, hasExited |-> FALSE, error |-> "null"]
  /\ _inst = FALSE
  /\ _resolveExitPromise = 0
  /\ exitPromise = NoRuns
  /\ runPromise = NoRuns
  /\ runPc = [k \in {} |-> "entry"]
  /\ _pendingEvent = 0
  /\ nextEvent = 1
  /\ hasWrapper = FALSE
  /\ _scheduledTimeouts = {}
  /\ _nextCallbackTimeoutID = 1
  /\ hostTimers = {}
  /\ stack = <<>>
  /\ resumeLog = [outcome |-> "none", exitedBefore |-> FALSE]
  /\ exitCalls = 0

(***************************************************************************)
(* ModernGo constructor and the re-seeding of ids 0-6 by run               *)
(***************************************************************************)
\* this._values = [NaN, 0, null, true, false, globalThis, this]
\* no value import has been called; the byte arrays hold distinct bytes
NoOp == [op |-> "none", target |-> "none", key |-> "none", outcome |-> "none",
         value |-> "none", flag |-> "none", len |-> -1]

NoCopy == [op |-> "none", isBytes |-> FALSE, n |-> 0, goBefore |-> <<>>, jsBefore |-> <<>>,
           countBefore |-> 0, flag |-> "none"]

\* the entry export has not been called
NoEntry == [called |-> FALSE, args |-> <<>>, ptrs |-> <<>>, cells |-> <<>>, p0 |-> 0, p1 |-> 0]

OpsConstructed ==
  /\ argv = <<"js">>
  /\ entryLog = NoEntry
  /\ memBuffer = 1
  /\ mem = 0
  /\ memLog = "none"
  /\ opLog = NoOp
  /\ nextFresh = 1
  /\ goBytes = [i \in 1..GoLen |-> i]
  /\ jsBytes = [i \in 1..JsLen |-> 10 + i]
  /\ countField = 0
  /\ copyLog = NoCopy

InitValues == [i \in 0..(NSentinels - 1) |-> SentinelValues[i + 1]]

\* mutant of InitRefCounts: the sentinels start with a finite count of 1
InitRefCounts_Finite == [i \in 0..(NSentinels - 1) |-> Num(1)]

\* new Array(this._values.length).fill(Infinity)
InitRefCounts == [i \in 0..(NSentinels - 1) |-> Infinity]

\* new Map([[0, 1], [null, 2], [true, 3], [false, 4], [globalThis, 5], [this, 6]])
InitIds == [v \in {SentinelValues[i] : i \in 2..NSentinels} |->
              CHOOSE i \in 1..(NSentinels - 1) : SentinelValues[i + 1] = v]

\* run: this._values[0] = NaN; ... this._values[6] = this
\* the ModernGo objects of a page with two guests
Bridges == {1, 2}

\* new ModernGo(): the field initialisers and the constructor
BridgeConstructed ==
  [values |-> InitValues, counts |-> InitRefCounts, ids |-> InitIds, pool |-> <<>>,
   mem |-> 0, pending |-> 0, buffer |-> 1, exited |-> FALSE]

\* no callFunction yet
NoCall == [outcome |-> "none", ready |-> FALSE, loaded |-> FALSE, exitedGuest |-> FALSE]

\* new ModernWasmExecutor(): no load in flight, nothing loaded
\* WasiLoader.reset of the keyed loader, and the state a new loader has
KeyedReset ==
  [url |-> "", isLoading |-> FALSE, progress |-> 0, error |-> "null",
   wasiModule |-> "null"]

\* the keyed loader before any call: an empty registry
KeyedConstructed ==
  /\ moduleRegistry = <<>>
  /\ keyedState = KeyedReset
  /\ keyedCalls = <<>>

\* ModernWorkerManager after its constructor
ManagerConstructed ==
  /\ worker = 0
  /\ workerApi = 0
  /\ initialized = FALSE
  /\ workers = <<>>
  /\ managerCalls = <<>>
  /\ managerLast = "new"
  /\ bootedSince = FALSE
  /\ searchLog = [outcome |-> "none", booted |-> FALSE, ready |-> FALSE]

\* a new WasiLoader
WasiConstructed ==
  /\ wasiState = [url |-> "", isLoading |-> FALSE, progress |-> 0,
                  error |-> "null", wasiModule |-> "null"]
  /\ wasiCalls = <<>>

\* the worker runtime's ModernWorkerManager.state as its constructor sets it
WmInitialState ==
  [isInitialized |-> FALSE, isRunning |-> FALSE, hasExited |-> FALSE,
   error |-> "null", lastOperation |-> "null", _wasmInstance |-> 0]

\* a ModernGo of the worker runtime after its constructor
FreshGo == [exited |-> FALSE, _inst |-> 0, timers |-> {}, nextId |-> 1]

\* the worker runtime's manager after its constructor
WorkerManagerConstructed ==
  /\ wmState = WmInitialState
  /\ goInstance = 1
  /\ gos = <<FreshGo>>
  /\ wmInstances = 0
  /\ timerLog = [outcome |-> "none", go |-> 0, current |-> 0]

\* writable<DebugMessage[]>([]) and goRuntimeState.logs: both start empty
LogsConstructed ==
  /\ debugMessages = <<>>
  /\ logs = <<>>
  /\ logSerial = 0
  /\ directCalls = 0
  /\ debugHistory = <<>>
  /\ logHistory = <<>>

HostConstructed ==
  /\ KeyedConstructed
  /\ ManagerConstructed
  /\ WasiConstructed
  /\ WorkerManagerConstructed
  /\ LogsConstructed

ExecutorConstructed ==
  /\ loadPromise = 0
  /\ performLoad = <<>>
  /\ callers = <<>>
  /\ microtasks = <<>>
  /\ guestExited = <<>>
  /\ callLog = NoCall

ReseedValues(vals) ==
  [j \in DOMAIN vals |-> IF j < NSentinels THEN SentinelValues[j + 1] ELSE vals[j]]

runReseed ==
  /\ _values' = ReseedValues(_values)
  /\ lastOp' = "run"
  /\ UNCHANGED <<_goRefCounts, _ids, _idPool, slot, interned, handedOut>>
  /\ UNCHANGED lifeVars
  /\ UNCHANGED opsVars
  /\ UNCHANGED memVars
  /\ UNCHANGED auxVars

Init ==
  /\ _values = InitValues
  /\ _goRefCounts = InitRefCounts
  /\ _ids = InitIds
  /\ _idPool = <<>>
  /\ slot = Slot(0, 0, 0)
  /\ interned = InitValues
  /\ handedOut = [i \in DOMAIN InitValues |-> {InitValues[i]}]
  /\ lastOp = "new"
  /\ LifeConstructed
  /\ OpsConstructed
  /\ bridges = [b \in Bridges |-> BridgeConstructed]
  /\ ExecutorConstructed
  /\ HostConstructed

Next ==
  \/ \E v \in HostValues : storeValue(v)
  \/ \E id \in 0..(NSentinels + MaxExtraId) : finalizeRef(id)
  \/ runReseed
  \/ \E s \in GuestSlots : guestWritesSlot(s)

Spec == Init /\ [][Next]_vars

(***************************************************************************)
(* The worker variant: src/LegacyApproach/go-runtime.worker.ts             *)
(***************************************************************************)
\* _resetIdPool: for (let i = 0; i < 8; i++) this._idPool.push(id++)
WorkerPoolSize == 8

\* _resetIdPool: the pool is pre-filled with the ids after the sentinels
WorkerInitPool == [i \in 1..WorkerPoolSize |-> NSentinels + i - 1]

\* _resetIdPool: this._ids.clear() leaves the reverse map empty
WorkerInitIds == [v \in {} |-> 0]

\* the values the worker model interns and writes
WorkerInputs == {"NaN", "zero", "null", "undefined", "num1", "numNeg3_5"} \cup DynValues

\* _storeValue writes a non-zero number with setBigUint64(addr, BigInt(v)):
\* BigInt of a non-integer throws a RangeError, an integer is written as an integer
WorkerNumberThrows(v) == v = "numNeg3_5"

WorkerEncodeSlot(v, id) ==
  IF TypeOf(v) = "number" /\ v # "zero"
  THEN IF v = "NaN" THEN Slot(0, nanHead, 0) ELSE Slot(0, 0, 1)
  ELSE IF v = "undefined" THEN Slot(0, 0, 0)
  ELSE HandleSlot(TypeFlag(v), id)

\* _loadValue: the 8 bytes read as one unsigned integer f; 0n is undefined,
\* 1n is null, anything else indexes _values with Number(f).  An integer
\* with a bit of its high word set is past the end of every table
Worker_loadValueFrom(vals, s) ==
  IF s.sign = 0 /\ s.hi = 0 /\ s.lo = 0 THEN "undefined"
  ELSE IF s.sign = 0 /\ s.hi = 0 /\ s.lo = 1 THEN "null"
  ELSE IF s.sign = 0 /\ s.hi = 0 THEN Resolve(vals, s.lo)
  ELSE "undefined"

Worker_storeValue(v) ==
  /\ WithinRefBound(v)
  /\ UNCHANGED lifeVars
  /\ UNCHANGED opsVars
  /\ UNCHANGED memVars
  /\ UNCHANGED auxVars
  /\ IF WorkerNumberThrows(v)
     THEN /\ lastOp' = "storeValue:throw"
          /\ UNCHANGED <<_values, _goRefCounts, _ids, _idPool, slot, interned, handedOut>>
     ELSE /\ lastOp' = "storeValue"
          /\ IF CrossesAsHandle(v)
             THEN LET t == Intern(_values, _goRefCounts, _ids, _idPool, v)
                  IN  /\ _values' = t.values
                      /\ _goRefCounts' = t.counts
                      /\ _ids' = t.ids
                      /\ _idPool' = t.pool
                      /\ slot' = WorkerEncodeSlot(v, t.id)
                      /\ interned' = ArrSet(interned, t.id, v, Empty)
                      /\ handedOut' =
                           ArrSet(handedOut, t.id, ArrGet(handedOut, t.id, {}) \cup {v}, {})
             ELSE /\ slot' = WorkerEncodeSlot(v, 0)
                  /\ UNCHANGED <<_values, _goRefCounts, _ids, _idPool, interned, handedOut>>

\* 'syscall/js.finalizeRef': (sp) => { /* empty */ }
Worker_finalizeRef(id) ==
  /\ lastOp' = FinalizeOp(id)
  /\ UNCHANGED <<_values, _goRefCounts, _ids, _idPool, slot, interned, handedOut>>
  /\ UNCHANGED lifeVars
  /\ UNCHANGED opsVars
  /\ UNCHANGED memVars
  /\ UNCHANGED auxVars

InitWorker ==
  /\ _values = InitValues
  /\ _goRefCounts = InitRefCounts
  /\ _ids = WorkerInitIds
  /\ _idPool = WorkerInitPool
  /\ slot = Slot(0, 0, 0)
  /\ interned = InitValues
  /\ handedOut = [i \in DOMAIN InitValues |-> {InitValues[i]}]
  /\ lastOp = "new"
  /\ LifeConstructed
  /\ OpsConstructed
  /\ bridges = [b \in Bridges |-> BridgeConstructed]
  /\ ExecutorConstructed
  /\ HostConstructed

NextWorker ==
  \/ \E v \in WorkerInputs : Worker_storeValue(v)
  \/ \E id \in 0..(NSentinels + WorkerPoolSize - 1) : Worker_finalizeRef(id)

SpecWorker == InitWorker /\ [][NextWorker]_vars

(***************************************************************************)
(* Execution lifecycle of the canonical runtime: run, _resume, the function*)
(* wrappers, wasmExit and the timers.  The guest runs only inside its run  *)
(* and resume exports; while a guest frame is on the stack the guest calls *)
(* imports, and host events (timers, host calls) wait for an empty stack.  *)
(***************************************************************************)
\* the exit codes the model's guest passes to wasmExit
ExitCodes == {"0", "1"}

Runs == DOMAIN runPc

Frame(kind, k, caller) == [kind |-> kind, k |-> k, caller |-> caller]

InGuest == Len(stack) > 0

HostIdle == Len(stack) = 0

\* resolve(value) of a promise: only a pending promise changes
ResolveWith(p, v) == IF p.s = "pending" THEN Fulfilled(v) ELSE p

\* this._resolveExitPromise?.(value)
CallResolveExit(promises, resolver, v) ==
  IF resolver = 0 THEN promises
  ELSE [promises EXCEPT ![resolver] = ResolveWith(@, v)]

\* the continuation of a run call is queued: its exitPromise is fulfilled
MicrotaskReady == \E k \in Runs : runPc[k] = "await" /\ exitPromise[k].s = "fulfilled"

\* handle-table fields other than _values: the lifecycle leaves them alone
handleRest == <<_goRefCounts, _ids, _idPool, slot, interned, handedOut, lastOp>>

\* run: let offset = 4096
ScratchOffset == 4096

\* new TextEncoder().encode(str).length for the arguments of the model
ByteLength(str) ==
  CASE str = "js" -> 2
    [] str = "verbose" -> 7
    [] str = "input.txt" -> 9
    [] OTHER -> 0

\* if (offset % 8 !== 0) offset += 8 - (offset % 8)
AlignUp(offset) == IF offset % 8 # 0 THEN offset + (8 - (offset % 8)) ELSE offset

\* this.argv.forEach(arg => argvPtrs.push(strPtr(arg))): each string is written
\* with a trailing NUL at the running offset, which is then aligned
RECURSIVE LayArgs(_, _, _)
LayArgs(args, offset, ptrs) ==
  IF args = <<>> THEN [offset |-> offset, ptrs |-> ptrs]
  ELSE LayArgs(Tail(args), AlignUp(offset + ByteLength(Head(args)) + 1), Append(ptrs, offset))

\* (instance.exports.run as Function)(offset, offset + 8)
EntryFirstParam(argc, offset) == offset

\* what run writes for the argument vector and passes to the entry export: the
\* int64 cells at offset (argc) and offset + 8 (argvPtrs[0] || 0)
EntryCall(args) ==
  LET l == LayArgs(args, ScratchOffset, <<>>)
  IN  [called |-> TRUE, args |-> args, ptrs |-> l.ptrs,
       cells |-> <<[addr |-> l.offset, v |-> Len(args)],
                   [addr |-> l.offset + 8, v |-> IF l.ptrs # <<>> THEN l.ptrs[1] ELSE 0]>>,
       p0 |-> EntryFirstParam(Len(args), l.offset), p1 |-> l.offset + 8]

\* ModernGo.run, up to the call of the guest's entry export
run ==
  /\ HostIdle
  /\ Cardinality(Runs) < MaxRuns
  /\ LET k == Cardinality(Runs) + 1
     IN  /\ goRuntimeState' =
               [goRuntimeState EXCEPT !.isRunning = TRUE, !.hasExited = FALSE, !.error = "null"]
         /\ _inst' = TRUE
         /\ _values' = ReseedValues(_values)
         /\ exitPromise' = [j \in Runs \cup {k} |-> IF j = k THEN Pending ELSE exitPromise[j]]
         /\ runPromise' = [j \in Runs \cup {k} |-> IF j = k THEN Pending ELSE runPromise[j]]
         /\ runPc' = [j \in Runs \cup {k} |-> IF j = k THEN "entry" ELSE runPc[j]]
         /\ _resolveExitPromise' = k
         /\ stack' = <<Frame("run", k, "host")>>
  /\ UNCHANGED <<exitCalls, exited, _pendingEvent, nextEvent, hasWrapper, _scheduledTimeouts,
                 _nextCallbackTimeoutID, hostTimers, resumeLog>>
  /\ UNCHANGED handleRest
  /\ UNCHANGED opsVars
  /\ mem' = memBuffer
  /\ UNCHANGED <<memBuffer, memLog>>
  /\ entryLog' = EntryCall(argv)
  /\ UNCHANGED argv
  /\ UNCHANGED auxRest

\* ModernGo.run after `await exitPromise`: the finally block, and the promise
\* run returned is fulfilled (an async function without a return value)
runContinue(k) ==
  /\ HostIdle
  /\ runPc[k] = "await"
  /\ exitPromise[k].s = "fulfilled"
  /\ goRuntimeState' = [goRuntimeState EXCEPT !.isRunning = FALSE]
  /\ runPromise' = [runPromise EXCEPT ![k] = Fulfilled("undefined")]
  /\ runPc' = [runPc EXCEPT ![k] = "done"]
  /\ UNCHANGED <<exitCalls, exited, _inst, _resolveExitPromise, exitPromise, _pendingEvent, nextEvent,
                 hasWrapper, _scheduledTimeouts, _nextCallbackTimeoutID, hostTimers, stack,
                 resumeLog>>
  /\ UNCHANGED handleVars
  /\ UNCHANGED opsVars
  /\ UNCHANGED memVars
  /\ UNCHANGED auxVars

\* a _resume without the exited guard
ResumeThrows_Never == FALSE

\* _resume: if (this.exited) throw new Error('Go program has already exited')
ResumeThrows == exited

\* _resume, up to the call of the guest's resume export: the stack after it and
\* the record of how it went
ResumeEnter(caller) ==
  /\ resumeLog' = [outcome |-> IF ResumeThrows THEN "AlreadyExited" ELSE "called",
                   exitedBefore |-> exited]
  /\ stack' = IF ResumeThrows THEN stack ELSE Append(stack, Frame("resume", 0, caller))

\* the guest cannot nest deeper than the model's bound
MayEnterGuest == ResumeThrows \/ Len(stack) < MaxDepth

\* the guest returns from its run or resume export; after resume returns,
\* _resume runs `if (this.exited && this._resolveExitPromise) this._resolveExitPromise()`
\* a _resume tail that resolves the exit promise whether or not the guest exited
ResumeTailResolves_Always == _resolveExitPromise # 0

\* _resume, after exports.resume returned: if (this.exited && this._resolveExitPromise)
ResumeTailResolves == exited /\ _resolveExitPromise # 0

guestReturn ==
  /\ InGuest
  /\ LET top == stack[Len(stack)]
     IN  /\ stack' = SubSeq(stack, 1, Len(stack) - 1)
         /\ IF top.kind = "run"
            THEN /\ runPc' = [runPc EXCEPT ![top.k] = "await"]
                 /\ UNCHANGED exitPromise
            ELSE /\ exitPromise' =
                      IF ResumeTailResolves
                      THEN CallResolveExit(exitPromise, _resolveExitPromise, "undefined")
                      ELSE exitPromise
                 /\ UNCHANGED runPc
  /\ UNCHANGED <<exitCalls, exited, goRuntimeState, _inst, _resolveExitPromise, runPromise, _pendingEvent,
                 nextEvent, hasWrapper, _scheduledTimeouts, _nextCallbackTimeoutID, hostTimers,
                 resumeLog>>
  /\ UNCHANGED handleVars
  /\ UNCHANGED opsVars
  /\ UNCHANGED memVars
  /\ UNCHANGED auxVars

\* the guest traps: its run or resume export throws.  run catches, records the
\* error, runs its finally block and rejects its promise; out of resume the
\* exception leaves _resume before its tail, to the timer callback or to the
\* caller of the function wrapper (valueCall and valueInvoke catch it)
TrapUnwind ==
  /\ InGuest
  /\ LET top == stack[Len(stack)]
     IN  /\ stack' = SubSeq(stack, 1, Len(stack) - 1)
         /\ IF top.kind = "run"
            THEN /\ runPc' = [runPc EXCEPT ![top.k] = "done"]
                 /\ runPromise' = [runPromise EXCEPT ![top.k] = Rejected("error")]
                 /\ goRuntimeState' =
                      [goRuntimeState EXCEPT !.error = "Go program execution failed",
                                             !.isRunning = FALSE]
            ELSE UNCHANGED <<runPc, runPromise, goRuntimeState>>
  /\ UNCHANGED <<exitCalls, exited, _inst, _resolveExitPromise, exitPromise, _pendingEvent,
                 nextEvent, hasWrapper, _scheduledTimeouts, _nextCallbackTimeoutID, hostTimers,
                 resumeLog>>

guestTraps ==
  /\ TrapUnwind
  /\ UNCHANGED handleVars
  /\ UNCHANGED opsVars
  /\ UNCHANGED memVars
  /\ UNCHANGED auxVars

\* runtime.wasmExit
wasmExit(code) ==
  /\ InGuest
  /\ exitCalls < MaxExits
  /\ exitCalls' = exitCalls + 1
  /\ exited' = TRUE
  /\ goRuntimeState' = [goRuntimeState EXCEPT !.hasExited = TRUE, !.isRunning = FALSE]
  /\ exitPromise' = CallResolveExit(exitPromise, _resolveExitPromise, code)
  /\ UNCHANGED <<_inst, _resolveExitPromise, runPromise, runPc, _pendingEvent, nextEvent,
                 hasWrapper, _scheduledTimeouts, _nextCallbackTimeoutID, hostTimers, stack,
                 resumeLog>>
  /\ UNCHANGED handleVars
  /\ UNCHANGED opsVars
  /\ UNCHANGED memVars
  /\ UNCHANGED auxVars

\* runtime.scheduleTimeoutEvent
scheduleTimeout ==
  /\ InGuest
  /\ _nextCallbackTimeoutID <= MaxTimers
  /\ _nextCallbackTimeoutID' = _nextCallbackTimeoutID + 1
  /\ _scheduledTimeouts' = _scheduledTimeouts \cup {_nextCallbackTimeoutID}
  /\ hostTimers' = hostTimers \cup {_nextCallbackTimeoutID}
  /\ UNCHANGED <<exitCalls, exited, goRuntimeState, _inst, _resolveExitPromise, exitPromise, runPromise,
                 runPc, _pendingEvent, nextEvent, hasWrapper, stack, resumeLog>>
  /\ UNCHANGED handleVars
  /\ UNCHANGED opsVars
  /\ UNCHANGED memVars
  /\ UNCHANGED auxVars

\* runtime.clearTimeoutEvent: clearTimeout(this._scheduledTimeouts.get(id));
\* this._scheduledTimeouts.delete(id)
\* a clearTimeout import that deletes the table entry and leaves the host
\* timer armed
HostTimersAfterClear_Kept(id) == hostTimers

\* clearTimeout(this._scheduledTimeouts.get(id)): clearTimeout(undefined) does
\* nothing
HostTimersAfterClear(id) ==
  IF id \in _scheduledTimeouts THEN hostTimers \ {id} ELSE hostTimers

\* this._scheduledTimeouts.delete(id)
TableAfterClear(id) == _scheduledTimeouts \ {id}

clearTimeout(id) ==
  /\ InGuest
  /\ hostTimers' = HostTimersAfterClear(id)
  /\ _scheduledTimeouts' = TableAfterClear(id)
  /\ UNCHANGED <<exitCalls, exited, goRuntimeState, _inst, _resolveExitPromise, exitPromise, runPromise,
                 runPc, _pendingEvent, nextEvent, hasWrapper, _nextCallbackTimeoutID, stack,
                 resumeLog>>
  /\ UNCHANGED handleVars
  /\ UNCHANGED opsVars
  /\ UNCHANGED memVars
  /\ UNCHANGED auxVars

\* the callback scheduleTimeout gave setTimeout: () => { this._resume(); }
timerFires(id) ==
  /\ HostIdle
  /\ ~MicrotaskReady
  /\ id \in hostTimers
  /\ MayEnterGuest
  /\ hostTimers' = hostTimers \ {id}
  /\ ResumeEnter("host")
  /\ UNCHANGED <<exitCalls, exited, goRuntimeState, _inst, _resolveExitPromise, exitPromise, runPromise,
                 runPc, _pendingEvent, nextEvent, hasWrapper, _scheduledTimeouts,
                 _nextCallbackTimeoutID>>
  /\ UNCHANGED handleVars
  /\ UNCHANGED opsVars
  /\ UNCHANGED memVars
  /\ UNCHANGED auxVars

\* the guest asks for a function wrapper: valueCall(go, "_makeFuncWrapper", id)
makeFuncWrapper ==
  /\ InGuest
  /\ ~hasWrapper
  /\ hasWrapper' = TRUE
  /\ UNCHANGED <<exitCalls, exited, goRuntimeState, _inst, _resolveExitPromise, exitPromise, runPromise,
                 runPc, _pendingEvent, nextEvent, _scheduledTimeouts, _nextCallbackTimeoutID,
                 hostTimers, stack, resumeLog>>
  /\ UNCHANGED handleVars
  /\ UNCHANGED opsVars
  /\ UNCHANGED memVars
  /\ UNCHANGED auxVars

\* the function _makeFuncWrapper returned is called, by the host when it is
\* idle or by the guest through valueCall / valueInvoke:
\* go._pendingEvent = event; go._resume(); return event.result
funcWrapperCalled(caller) ==
  /\ hasWrapper
  /\ IF caller = "host" THEN HostIdle /\ ~MicrotaskReady ELSE InGuest
  /\ nextEvent <= MaxEvents
  /\ MayEnterGuest
  /\ _pendingEvent' = nextEvent
  /\ nextEvent' = nextEvent + 1
  /\ ResumeEnter(caller)
  /\ UNCHANGED <<exitCalls, exited, goRuntimeState, _inst, _resolveExitPromise, exitPromise, runPromise,
                 runPc, hasWrapper, _scheduledTimeouts, _nextCallbackTimeoutID, hostTimers>>
  /\ UNCHANGED handleVars
  /\ UNCHANGED opsVars
  /\ UNCHANGED memVars
  /\ UNCHANGED auxVars

\* the guest takes the pending event: valueGet(go, "_pendingEvent") and
\* valueSet(go, "_pendingEvent", null)
consumePendingEvent ==
  /\ InGuest
  /\ _pendingEvent # 0
  /\ _pendingEvent' = 0
  /\ UNCHANGED <<exitCalls, exited, goRuntimeState, _inst, _resolveExitPromise, exitPromise, runPromise,
                 runPc, nextEvent, hasWrapper, _scheduledTimeouts, _nextCallbackTimeoutID,
                 hostTimers, stack, resumeLog>>
  /\ UNCHANGED handleVars
  /\ UNCHANGED opsVars
  /\ UNCHANGED memVars
  /\ UNCHANGED auxVars

InitLife ==
  /\ _values = InitValues
  /\ _goRefCounts = InitRefCounts
  /\ _ids = InitIds
  /\ _idPool = <<>>
  /\ slot = Slot(0, 0, 0)
  /\ interned = InitValues
  /\ handedOut = [i \in DOMAIN InitValues |-> {InitValues[i]}]
  /\ lastOp = "new"
  /\ LifeConstructed
  /\ OpsConstructed
  /\ bridges = [b \in Bridges |-> BridgeConstructed]
  /\ ExecutorConstructed
  /\ HostConstructed

NextLife ==
  \/ run
  \/ \E k \in Runs : runContinue(k)
  \/ guestReturn
  \/ guestTraps
  \/ \E code \in ExitCodes : wasmExit(code)
  \/ scheduleTimeout
  \/ \E id \in 1..MaxTimers : clearTimeout(id)
  \/ \E id \in 1..MaxTimers : timerFires(id)
  \/ makeFuncWrapper
  \/ \E caller \in {"host", "guest"} : funcWrapperCalled(caller)
  \/ consumePendingEvent

SpecLife == InitLife /\ [][NextLife]_vars

(***************************************************************************)
(* The timer imports alone, with the runs and exits around them            *)
(***************************************************************************)
runForTimers ==
  /\ run

runContinueForTimers(k) ==
  /\ runContinue(k)

guestReturnForTimers ==
  /\ guestReturn

wasmExitForTimers(code) ==
  /\ wasmExit(code)

scheduleTimeoutForTimers ==
  /\ scheduleTimeout

clearTimeoutForTimers(id) ==
  /\ clearTimeout(id)

timerFiresForTimers(id) ==
  /\ timerFires(id)

NextTimers ==
  \/ runForTimers
  \/ \E k \in Runs : runContinueForTimers(k)
  \/ guestReturnForTimers
  \/ \E code \in ExitCodes : wasmExitForTimers(code)
  \/ scheduleTimeoutForTimers
  \/ \E id \in 1..MaxTimers : clearTimeoutForTimers(id)
  \/ \E id \in 1..MaxTimers : timerFiresForTimers(id)

SpecTimers == InitLife /\ [][NextTimers]_vars

(***************************************************************************)
(* The syscall/js value imports of the canonical runtime.  The guest calls *)
(* them while it runs; the operand slots are guest memory, so the guest    *)
(* chooses their bits.  The host side is a small object graph:             *)
(*   globalThis.objA, globalThis.fnC, globalThis.u8 (a Uint8Array),        *)
(*   objA.m (returns 1), objA.boom (throws a new Error), fnC() returns     *)
(*   true, new fnC() and new objA.m() give a new object.                   *)
(***************************************************************************)
Ret(v) == [threw |-> FALSE, v |-> v]

Thrown(v) == [threw |-> TRUE, v |-> v]

\* the object the host creates next: a TypeError, an Error, a constructed object
Fresh == FreshNames[nextFresh]

\* Reflect.get / Reflect.apply / Reflect.construct accept the value as target
IsObject(v) == TypeOf(v) \in {"object", "function"} /\ v # "null"

\* the own and inherited properties of the host objects
PropertyOf(v, key) ==
  CASE v = "globalThis" /\ key \in {"objA", "fnC", "u8"} -> key
    [] v = "objA" /\ key = "m" -> "fnM"
    [] v = "objA" /\ key = "boom" -> "fnBoom"
    [] OTHER -> "undefined"

\* Reflect.get(v, key): TypeError when v is not an object
ReflectGet(v, key) == IF IsObject(v) THEN Ret(PropertyOf(v, key)) ELSE Thrown(Fresh)

\* Reflect.apply(f, thisArg, args): TypeError when f is not callable
ReflectApply(f) ==
  CASE TypeOf(f) # "function" -> Thrown(Fresh)
    [] f = "fnM" -> Ret("num1")
    [] f = "fnBoom" -> Thrown(Fresh)
    [] OTHER -> Ret("true")

\* Reflect.construct(f, args): TypeError when f is not a constructor
ReflectConstruct(f) ==
  CASE TypeOf(f) # "function" -> Thrown(Fresh)
    [] f = "fnBoom" -> Thrown(Fresh)
    [] OTHER -> Ret(Fresh)

\* v.length, then BigInt(...) of it: TypeError for undefined and null, and for
\* a length that is undefined; -1 stands for the throw
LengthOf(v) ==
  CASE v = "u8" -> Len(jsBytes)
    [] TypeOf(v) = "function" -> 0
    [] OTHER -> -1

\* the slots the guest passes as operands: undefined, the sentinels null,
\* globalThis and this, and handles of the ids the host handed out
OperandSlots ==
  {Slot(0, 0, 0), HandleSlot(0, 2), HandleSlot(1, 5)}
    \cup {HandleSlot(1, id) : id \in NSentinels..(NSentinels + MaxExtraId)}

\* the property names the guest asks for, and the method names it calls
GetKeys == {"objA", "fnC", "missing"}

CallKeys == {"m", "boom", "missing"}

\* a valueCall, valueInvoke and valueNew without their try/catch
CallCatches_Never == FALSE

\* valueCall, valueInvoke and valueNew run their whole body inside try/catch
CallCatches == TRUE

\* a flag byte that does not depend on the outcome
CallFlag_AlwaysOne(r) == "1"

\* the flag byte valueCall, valueInvoke and valueNew write

CallFlag(r) == IF r.threw THEN "0" ELSE "1"

\* the model's bounds allow the outcome: a new object is left, and the count
\* of the value stored stays within MaxRef
WithinOpsBound(r) ==
  /\ r.v \in FreshValues => nextFresh <= MaxFresh
  /\ CrossesAsHandle(r.v) => WithinRefBound(r.v)

\* this.mem is a DataView over a buffer that growth has detached: every
\* access through it throws a TypeError
StaleView == mem # memBuffer

\* an import goes through this.mem
ViewAccess ==
  /\ memLog' = IF StaleView THEN "stale" ELSE "fresh"
  /\ UNCHANGED <<memBuffer, mem>>

\* the end of a value import whose operation gave r: with a try/catch the
\* value returned or thrown is stored and the flag written; without one a
\* throw leaves the import and unwinds the guest
FinishOp(name, target, key, r, catches) ==
  /\ InGuest
  /\ WithinOpsBound(r)
  /\ nextFresh' = IF r.v \in FreshValues THEN nextFresh + 1 ELSE nextFresh
  /\ lastOp' = name
  /\ ViewAccess
  /\ UNCHANGED auxVars
  /\ IF StaleView \/ (r.threw /\ ~catches)
     THEN /\ TrapUnwind
          /\ UNCHANGED <<_values, _goRefCounts, _ids, _idPool, slot, interned, handedOut>>
          /\ opLog' = [op |-> name, target |-> target, key |-> key, outcome |-> "fault",
                       value |-> r.v, flag |-> "none", len |-> -1]
     ELSE /\ StoreEffect(r.v)
          /\ UNCHANGED lifeVars
          /\ opLog' = [op |-> name, target |-> target, key |-> key,
                       outcome |-> IF r.threw THEN "threw" ELSE "returned",
                       value |-> r.v, flag |-> IF catches THEN CallFlag(r) ELSE "none",
                       len |-> -1]
  /\ UNCHANGED <<goBytes, jsBytes, countField, copyLog>>

\* syscall/js.valueGet
valueGet(s, key) ==
  /\ LET v == loadValue(s)
     IN  FinishOp("valueGet", v, key, ReflectGet(v, key), FALSE)

\* syscall/js.valueIndex
valueIndex(s) ==
  /\ LET v == loadValue(s)
     IN  FinishOp("valueIndex", v, "0", ReflectGet(v, "0"), FALSE)

\* syscall/js.valueCall
valueCall(s, key) ==
  /\ LET v == loadValue(s)
         m == ReflectGet(v, key)
     IN  FinishOp("valueCall", v, key, IF m.threw THEN m ELSE ReflectApply(m.v), CallCatches)

\* syscall/js.valueInvoke
valueInvoke(s) ==
  /\ LET v == loadValue(s)
     IN  FinishOp("valueInvoke", v, "none", ReflectApply(v), CallCatches)

\* syscall/js.valueNew
valueNew(s) ==
  /\ LET v == loadValue(s)
     IN  FinishOp("valueNew", v, "none", ReflectConstruct(v), CallCatches)

\* syscall/js.valueLength: no try/catch and no flag; the length is written as
\* an int64
valueLength(s) ==
  /\ InGuest
  /\ LET v == loadValue(s)
         n == LengthOf(v)
     IN  /\ n < 0 => nextFresh <= MaxFresh
         /\ nextFresh' = IF n < 0 THEN nextFresh + 1 ELSE nextFresh
         /\ opLog' = [op |-> "valueLength", target |-> v, key |-> "length",
                      outcome |-> IF n < 0 \/ StaleView THEN "fault" ELSE "returned",
                      value |-> IF n < 0 THEN Fresh ELSE "none", flag |-> "none",
                      len |-> IF StaleView THEN -1 ELSE n]
         /\ IF n < 0 \/ StaleView THEN TrapUnwind ELSE UNCHANGED lifeVars
  /\ lastOp' = "valueLength"
  /\ ViewAccess
  /\ UNCHANGED auxVars
  /\ UNCHANGED <<_values, _goRefCounts, _ids, _idPool, slot, interned, handedOut>>
  /\ UNCHANGED <<goBytes, jsBytes, countField, copyLog>>

\* ModernGo.run as the value imports see it: the lifecycle step, nothing else
runForOps ==
  /\ run

NextOps ==
  \/ runForOps
  \/ \E s \in OperandSlots, key \in GetKeys : valueGet(s, key)
  \/ \E s \in OperandSlots : valueIndex(s)
  \/ \E s \in OperandSlots, key \in CallKeys : valueCall(s, key)
  \/ \E s \in OperandSlots : valueInvoke(s)
  \/ \E s \in OperandSlots : valueNew(s)
  \/ \E s \in OperandSlots : valueLength(s)

SpecOps == InitLife /\ [][NextOps]_vars

(***************************************************************************)
(* syscall/js.copyBytesToGo and syscall/js.copyBytesToJS.  The guest's     *)
(* slice is the first n bytes of its buffer; the host operand is whatever  *)
(* the operand slot resolves to.                                           *)
(***************************************************************************)
\* src instanceof Uint8Array || src instanceof Uint8ClampedArray
IsByteArray(v) == v = "u8"

\* a count taken from the source alone
ToCopy_SrcLength(dstLen, srcLen) == srcLen

\* Math.min(dst.length, src.length)
ToCopy(dstLen, srcLen) == IF dstLen < srcLen THEN dstLen ELSE srcLen

\* dst.set(src.subarray(0, toCopy))
SetBytes(dst, src, toCopy) ==
  [i \in 1..Len(dst) |-> IF i <= toCopy THEN src[i] ELSE dst[i]]

CopyLogged(name, v, n, flag) ==
  [op |-> name, isBytes |-> IsByteArray(v), n |-> n, goBefore |-> goBytes,
   jsBefore |-> jsBytes, countBefore |-> countField, flag |-> flag]

copyBytesToGo(n, s) ==
  /\ InGuest
  /\ LET src == loadValue(s)
         toCopy == ToCopy(n, Len(jsBytes))
     IN  IF StaleView
         THEN /\ copyLog' = CopyLogged("copyBytesToGo", src, n, "none")
              /\ UNCHANGED <<goBytes, countField>>
         ELSE IF ~IsByteArray(src)
         THEN /\ copyLog' = CopyLogged("copyBytesToGo", src, n, "0")
              /\ UNCHANGED <<goBytes, countField>>
         ELSE /\ goBytes' = SetBytes(goBytes, jsBytes, toCopy)
              /\ countField' = toCopy
              /\ copyLog' = CopyLogged("copyBytesToGo", src, n, "1")
  /\ IF StaleView THEN TrapUnwind ELSE UNCHANGED lifeVars
  /\ ViewAccess
  /\ UNCHANGED auxVars
  /\ lastOp' = "copyBytesToGo"
  /\ UNCHANGED <<jsBytes, opLog, nextFresh>>
  /\ UNCHANGED <<_values, _goRefCounts, _ids, _idPool, slot, interned, handedOut>>

copyBytesToJS(n, s) ==
  /\ InGuest
  /\ LET dst == loadValue(s)
         toCopy == ToCopy(Len(jsBytes), n)
     IN  IF StaleView
         THEN /\ copyLog' = CopyLogged("copyBytesToJS", dst, n, "none")
              /\ UNCHANGED <<jsBytes, countField>>
         ELSE IF ~IsByteArray(dst)
         THEN /\ copyLog' = CopyLogged("copyBytesToJS", dst, n, "0")
              /\ UNCHANGED <<jsBytes, countField>>
         ELSE /\ jsBytes' = SetBytes(jsBytes, goBytes, toCopy)
              /\ countField' = toCopy
              /\ copyLog' = CopyLogged("copyBytesToJS", dst, n, "1")
  /\ IF StaleView THEN TrapUnwind ELSE UNCHANGED lifeVars
  /\ ViewAccess
  /\ UNCHANGED auxVars
  /\ lastOp' = "copyBytesToJS"
  /\ UNCHANGED <<goBytes, opLog, nextFresh>>
  /\ UNCHANGED <<_values, _goRefCounts, _ids, _idPool, slot, interned, handedOut>>

\* the guest fetches the operands of the copies: globalThis.u8, globalThis.objA
valueGetOperand(key) ==
  /\ valueGet(HandleSlot(1, 5), key)

runForCopy ==
  /\ run

NextCopy ==
  \/ runForCopy
  \/ \E key \in {"u8", "objA"} : valueGetOperand(key)
  \/ \E n \in 0..GoLen, s \in OperandSlots : copyBytesToGo(n, s)
  \/ \E n \in 0..GoLen, s \in OperandSlots : copyBytesToJS(n, s)

SpecCopy == InitLife /\ [][NextCopy]_vars

(***************************************************************************)
(* The memory view.  this.mem is assigned by run and by the import         *)
(* runtime.resetMemoryDataView only; the guest grows its memory with the   *)
(* memory.grow instruction, which the host does not see.                   *)
(***************************************************************************)
\* the guest executes memory.grow: exports.mem.buffer becomes a new buffer
guestGrowsMemory ==
  /\ InGuest
  /\ memBuffer <= MaxGrow
  /\ memBuffer' = memBuffer + 1
  /\ UNCHANGED <<mem, memLog>>
  /\ UNCHANGED auxVars
  /\ UNCHANGED handleVars
  /\ UNCHANGED lifeVars
  /\ UNCHANGED opsVars

\* runtime.resetMemoryDataView
resetMemory ==
  /\ InGuest
  /\ mem' = memBuffer
  /\ UNCHANGED <<memBuffer, memLog>>
  /\ UNCHANGED auxVars
  /\ UNCHANGED handleVars
  /\ UNCHANGED lifeVars
  /\ UNCHANGED opsVars

runForMem ==
  /\ run

\* the imports the guest calls between growths: call-method and get-property
valueCallForMem(s, key) ==
  /\ valueCall(s, key)

valueGetForMem(key) ==
  /\ valueGet(HandleSlot(1, 5), key)

NextMem ==
  \/ runForMem
  \/ guestGrowsMemory
  \/ resetMemory
  \/ \E key \in {"objA"} : valueGetForMem(key)
  \/ \E s \in OperandSlots, key \in CallKeys : valueCallForMem(s, key)

SpecMem == InitLife /\ [][NextMem]_vars

(***************************************************************************)
(* The argument vector.  argv is a public field the embedder may assign    *)
(* before it calls run.                                                    *)
(***************************************************************************)
MaxArgs == 2

ArgStrings == {"js", "verbose", "input.txt"}

ArgVectors == UNION {[1..n -> ArgStrings] : n \in 0..MaxArgs}

\* go.argv = [...]
setArgv(a) ==
  /\ HostIdle
  /\ argv # a
  /\ argv' = a
  /\ UNCHANGED entryLog
  /\ UNCHANGED auxRest
  /\ UNCHANGED handleVars
  /\ UNCHANGED lifeVars
  /\ UNCHANGED opsVars
  /\ UNCHANGED memVars

runForArgs ==
  /\ run

guestReturnForArgs ==
  /\ guestReturn

NextArgs ==
  \/ \E a \in ArgVectors : setArgv(a)
  \/ runForArgs
  \/ guestReturnForArgs

SpecArgs == InitLife /\ [][NextArgs]_vars

(***************************************************************************)
(* Two ModernGo objects, each running its own guest instance.  The Handle  *)
(* Table, mem and _pendingEvent are instance fields, assigned in the field *)
(* initialisers and the constructor; every import is bound to its object.  *)
(***************************************************************************)
\* the fields of ModernGo other than the module state goRuntimeState
lifeRest ==
  <<exited, _inst, _resolveExitPromise, exitPromise, runPromise, runPc, _pendingEvent,
    nextEvent, hasWrapper, _scheduledTimeouts, _nextCallbackTimeoutID, hostTimers, stack,
    resumeLog, exitCalls>>

\* a class whose fields are static: every object uses the storage of the first
FieldOwner_Static(b) == 1

\* the object whose storage `this.<field>` names inside a method of b
FieldOwner(b) == b

\* the structures bridge b works on
BridgeFields(b) == bridges[FieldOwner(b)]

\* the Handle Table, memory view and pending-call slot of bridge b
BridgeStructures(b) ==
  [values |-> BridgeFields(b).values, counts |-> BridgeFields(b).counts,
   ids |-> BridgeFields(b).ids, pool |-> BridgeFields(b).pool,
   mem |-> BridgeFields(b).mem, pending |-> BridgeFields(b).pending]

\* the value both guests hand over
BridgeValues == {"objA"}

BridgeRunning(b) == BridgeFields(b).mem # 0

\* b.run(instance of guest b): the memory view and the sentinel slots
bridgeRun(b) ==
  /\ ~BridgeRunning(b)
  /\ bridges' = [bridges EXCEPT ![FieldOwner(b)].mem = bridges[b].buffer,
                                ![FieldOwner(b)].values = ReseedValues(@)]
  /\ goRuntimeState' =
       [goRuntimeState EXCEPT !.isRunning = TRUE, !.hasExited = FALSE, !.error = "null"]
  /\ UNCHANGED <<handleVars, lifeRest, opsVars, memVars, argVars, execVars, hostVars>>

\* wasmExit on bridge b
bridgeWasmExit(b) ==
  /\ BridgeRunning(b)
  /\ ~BridgeFields(b).exited
  /\ bridges' = [bridges EXCEPT ![FieldOwner(b)].exited = TRUE]
  /\ goRuntimeState' = [goRuntimeState EXCEPT !.hasExited = TRUE, !.isRunning = FALSE]
  /\ UNCHANGED <<handleVars, lifeRest, opsVars, memVars, argVars, execVars, hostVars>>

\* storeValue on bridge b
bridgeStoreValue(b, v) ==
  /\ BridgeRunning(b)
  /\ LET f == BridgeFields(b)
         c == IF MapHas(f.ids, v) THEN ArrGet(f.counts, f.ids[v], Absent) ELSE Num(0)
         t == Intern(f.values, f.counts, f.ids, f.pool, v)
     IN  /\ c.k = "num" => c.n < MaxRef
         /\ bridges' = [bridges EXCEPT ![FieldOwner(b)].values = t.values,
                                       ![FieldOwner(b)].counts = t.counts,
                                       ![FieldOwner(b)].ids = t.ids,
                                       ![FieldOwner(b)].pool = t.pool]
  /\ UNCHANGED <<handleVars, lifeVars, opsVars, memVars, argVars, execVars, hostVars>>

\* finalizeRef on bridge b, of an id the guest of b holds
bridgeFinalizeRef(b, id) ==
  /\ BridgeRunning(b)
  /\ LET f == BridgeFields(b)
         t == Release(f.values, f.counts, f.ids, f.pool, id)
     IN  /\ IsPositive(ArrGet(f.counts, id, Absent))
         /\ bridges' = [bridges EXCEPT ![FieldOwner(b)].values = t.values,
                                       ![FieldOwner(b)].counts = t.counts,
                                       ![FieldOwner(b)].ids = t.ids,
                                       ![FieldOwner(b)].pool = t.pool]
  /\ UNCHANGED <<handleVars, lifeVars, opsVars, memVars, argVars, execVars, hostVars>>

\* the wrapper _makeFuncWrapper of bridge b returned is called:
\* go._pendingEvent = event
bridgeFuncWrapperCalled(b) ==
  /\ BridgeRunning(b)
  /\ BridgeFields(b).pending = 0
  /\ bridges' = [bridges EXCEPT ![FieldOwner(b)].pending = 1]
  /\ UNCHANGED <<handleVars, lifeVars, opsVars, memVars, argVars, execVars, hostVars>>

\* the guest of b takes the pending event
bridgeConsumePendingEvent(b) ==
  /\ BridgeFields(b).pending # 0
  /\ bridges' = [bridges EXCEPT ![FieldOwner(b)].pending = 0]
  /\ UNCHANGED <<handleVars, lifeVars, opsVars, memVars, argVars, execVars, hostVars>>

\* the guest of b grows its memory
bridgeGuestGrowsMemory(b) ==
  /\ BridgeRunning(b)
  /\ bridges[b].buffer <= MaxGrow
  /\ bridges' = [bridges EXCEPT ![b].buffer = @ + 1]
  /\ UNCHANGED <<handleVars, lifeVars, opsVars, memVars, argVars, execVars, hostVars>>

\* runtime.resetMemoryDataView on bridge b
bridgeResetMemory(b) ==
  /\ BridgeRunning(b)
  /\ BridgeFields(b).mem # bridges[b].buffer
  /\ bridges' = [bridges EXCEPT ![FieldOwner(b)].mem = bridges[b].buffer]
  /\ UNCHANGED <<handleVars, lifeVars, opsVars, memVars, argVars, execVars, hostVars>>

NextBridges ==
  \/ \E b \in Bridges : bridgeRun(b)
  \/ \E b \in Bridges : bridgeWasmExit(b)
  \/ \E b \in Bridges, v \in BridgeValues : bridgeStoreValue(b, v)
  \/ \E b \in Bridges, id \in NSentinels..(NSentinels + MaxExtraId) : bridgeFinalizeRef(b, id)
  \/ \E b \in Bridges : bridgeFuncWrapperCalled(b)
  \/ \E b \in Bridges : bridgeConsumePendingEvent(b)
  \/ \E b \in Bridges : bridgeGuestGrowsMemory(b)
  \/ \E b \in Bridges : bridgeResetMemory(b)

SpecBridges == InitLife /\ [][NextBridges]_vars

(***************************************************************************)
(* ModernWasmExecutor and ModernGoWasmRuntimeManager: loadWasm,            *)
(* _performLoad, loadAndRun and callFunction, over the module state        *)
(* goRuntimeState.  Every load makes a new ModernGo and a new instance.    *)
(***************************************************************************)
MaxLoads == 2

MaxCallers == 3

\* what the executor leaves alone: everything but goRuntimeState
execFrame ==
  <<handleVars, exited, _inst, _resolveExitPromise, exitPromise, runPromise, runPc,
    _pendingEvent, nextEvent, hasWrapper, _scheduledTimeouts, _nextCallbackTimeoutID,
    hostTimers, stack, resumeLog, exitCalls, opsVars, memVars, argVars, bridges,
    hostVars>>

\* goRuntimeState.isReady
IsReady ==
  /\ goRuntimeState.isInitialized
  /\ goRuntimeState.isRunning
  /\ ~goRuntimeState.hasExited
  /\ goRuntimeState.error = "null"

\* a callFunction without the readiness test
NotReadyThrows_Never == FALSE

\* callFunction: if (!this.isReady()) throw new Error('WASM not ready. ...')
NotReadyThrows == ~IsReady

\* a loadWasm that never finds a load in flight
LoadInFlight_Never == FALSE

\* loadWasm: if (this.loadPromise)
LoadInFlight == loadPromise # 0

\* a promise of _performLoad is fulfilled: the loadWasm calls awaiting it get
\* their continuations queued in the order they began to await
WaitersOf(k) == SelectSeq([c \in 1..Len(callers) |-> c],
                          LAMBDA c : callers[c].load = k /\ callers[c].pc = "await")

Settle(k, r) ==
  /\ performLoad' = [performLoad EXCEPT ![k] = [pc |-> "settled", result |-> r]]
  /\ microtasks' = microtasks \o WaitersOf(k)

\* loadWasm(path), up to its await
loadWasm ==
  /\ Len(callers) < MaxCallers
  /\ IF LoadInFlight
     THEN /\ callers' = Append(callers, [load |-> loadPromise, starter |-> FALSE,
                                         pc |-> "await", result |-> "none"])
          /\ microtasks' = IF performLoad[loadPromise].pc = "settled"
                           THEN Append(microtasks, Len(callers) + 1)
                           ELSE microtasks
          /\ UNCHANGED <<loadPromise, performLoad, goRuntimeState>>
     ELSE /\ Len(performLoad) < MaxLoads
          /\ loadPromise' = Len(performLoad) + 1
          /\ performLoad' = Append(performLoad, [pc |-> "fetch", result |-> "none"])
          /\ callers' = Append(callers, [load |-> Len(performLoad) + 1, starter |-> TRUE,
                                         pc |-> "await", result |-> "none"])
          /\ goRuntimeState' = [goRuntimeState EXCEPT !.error = "null", !.isInitialized = TRUE]
          /\ UNCHANGED microtasks
  /\ UNCHANGED <<guestExited, callLog>>
  /\ UNCHANGED execFrame

\* loadAndRun: fetch, compile or instantiate fails; _performLoad returns false
loadFails(k) ==
  /\ k \in 1..Len(performLoad)
  /\ performLoad[k].pc = "fetch"
  /\ goRuntimeState' = [goRuntimeState EXCEPT !.error = "WASM loading failed",
                                              !.isRunning = FALSE]
  /\ Settle(k, "false")
  /\ UNCHANGED <<loadPromise, callers, guestExited, callLog>>
  /\ UNCHANGED execFrame

\* goRuntimeState after run(instance) on the new ModernGo, whose entry call
\* returns with the guest blocked, after the guest exited, or by a trap
AfterRun(how) ==
  CASE how = "blocks" ->
         [goRuntimeState EXCEPT !.isRunning = TRUE, !.hasExited = FALSE, !.error = "null"]
    [] how = "exits" ->
         [goRuntimeState EXCEPT !.isRunning = FALSE, !.hasExited = TRUE, !.error = "null"]
    [] OTHER ->
         [goRuntimeState EXCEPT !.isRunning = FALSE, !.hasExited = FALSE,
                                !.error = "Go program execution failed"]

\* loadAndRun after the instance is made: wasmInstance, isRunning = true and
\* the dispatch of run
loadRuns(k, how) ==
  /\ k \in 1..Len(performLoad)
  /\ performLoad[k].pc = "fetch"
  /\ guestExited' = Append(guestExited, how = "exits")
  /\ goRuntimeState' = AfterRun(how)
  /\ performLoad' = [performLoad EXCEPT ![k].pc = "init"]
  /\ UNCHANGED <<loadPromise, callers, microtasks, callLog>>
  /\ UNCHANGED execFrame

\* _performLoad after waitForGoInitialization: true when exports were seen,
\* on a timeout what isRunning && !hasExited gives
initSettles(k, seen) ==
  /\ k \in 1..Len(performLoad)
  /\ performLoad[k].pc = "init"
  /\ Settle(k, IF seen \/ (goRuntimeState.isRunning /\ ~goRuntimeState.hasExited)
               THEN "true" ELSE "false")
  /\ UNCHANGED <<loadPromise, callers, guestExited, callLog, goRuntimeState>>
  /\ UNCHANGED execFrame

\* loadWasm after its await: the starter clears loadPromise; both return
loadWasmContinues ==
  /\ microtasks # <<>>
  /\ LET c == Head(microtasks)
     IN  /\ callers' = [callers EXCEPT ![c].pc = "returned",
                                       ![c].result = performLoad[callers[c].load].result]
         /\ loadPromise' = IF callers[c].starter THEN 0 ELSE loadPromise
  /\ microtasks' = Tail(microtasks)
  /\ UNCHANGED <<performLoad, guestExited, callLog, goRuntimeState>>
  /\ UNCHANGED execFrame

\* a blocked guest is resumed (timer, callback) and calls wasmExit
guestExits(g) ==
  /\ g \in 1..Len(guestExited)
  /\ ~guestExited[g]
  /\ guestExited' = [guestExited EXCEPT ![g] = TRUE]
  /\ goRuntimeState' = [goRuntimeState EXCEPT !.hasExited = TRUE, !.isRunning = FALSE]
  /\ UNCHANGED <<loadPromise, performLoad, callers, microtasks, callLog>>
  /\ UNCHANGED execFrame

\* callFunction(name): throws 'WASM not ready', or calls the export of
\* wasmInstance, which returns or throws
callFunction(threw) ==
  /\ LET loaded == Len(guestExited) > 0
         gone == loaded /\ guestExited[Len(guestExited)]
     IN  IF NotReadyThrows
         THEN /\ ~threw
              /\ callLog' = [outcome |-> "not ready", ready |-> IsReady, loaded |-> loaded,
                             exitedGuest |-> gone]
              /\ UNCHANGED goRuntimeState
         ELSE /\ callLog' = [outcome |-> IF loaded THEN "export called" ELSE "not loaded",
                             ready |-> IsReady, loaded |-> loaded, exitedGuest |-> gone]
              /\ goRuntimeState' = IF threw \/ ~loaded
                                   THEN [goRuntimeState EXCEPT !.error = "Error calling"]
                                   ELSE goRuntimeState
  /\ UNCHANGED <<loadPromise, performLoad, callers, microtasks, guestExited>>
  /\ UNCHANGED execFrame

NextExec ==
  \/ loadWasm
  \/ \E k \in 1..MaxLoads : loadFails(k)
  \/ \E k \in 1..MaxLoads, how \in {"blocks", "exits", "traps"} : loadRuns(k, how)
  \/ \E k \in 1..MaxLoads, seen \in BOOLEAN : initSettles(k, seen)
  \/ loadWasmContinues
  \/ \E g \in 1..MaxLoads : guestExits(g)
  \/ \E threw \in BOOLEAN : callFunction(threw)

\* the module is loaded and the executor constructed; no ModernGo exists yet
InitExec ==
  /\ _values = InitValues
  /\ _goRefCounts = InitRefCounts
  /\ _ids = InitIds
  /\ _idPool = <<>>
  /\ slot = Slot(0, 0, 0)
  /\ interned = InitValues
  /\ handedOut = [i \in DOMAIN InitValues |-> {InitValues[i]}]
  /\ lastOp = "new"
  /\ exited = FALSE
  /\ goRuntimeState =
       [isInitialized |-> FALSE, isRunning |-> FALSE, hasExited |-> FALSE, error |-> "null"]
  /\ _inst = FALSE
  /\ _resolveExitPromise = 0
  /\ exitPromise = NoRuns
  /\ runPromise = NoRuns
  /\ runPc = [k \in {} |-> "entry"]
  /\ _pendingEvent = 0
  /\ nextEvent = 1
  /\ hasWrapper = FALSE
  /\ _scheduledTimeouts = {}
  /\ _nextCallbackTimeoutID = 1
  /\ hostTimers = {}
  /\ stack = <<>>
  /\ resumeLog = [outcome |-> "none", exitedBefore |-> FALSE]
  /\ exitCalls = 0
  /\ OpsConstructed
  /\ bridges = [b \in Bridges |-> BridgeConstructed]
  /\ ExecutorConstructed
  /\ HostConstructed

SpecExec == InitExec /\ [][NextExec]_vars

(***************************************************************************)
(* The keyed loader: WasiLoader.loadWasm(key, url) over the static module   *)
(* registry.  A call runs to its first await in one step; what follows each *)
(* await is a step of its own, so that calls may overlap.                   *)
(***************************************************************************)
MaxKeyedLoads == 2

RegistryKeys == {"k1", "k2"}

WasmUrls == {"a.wasm", "b.wasm"}

\* what the names isWorker, isIsolated and isSSR in the fetch branch read:
\* the branch names them without `this.`, so in a build that binds them
\* nowhere the read throws; otherwise they select the approach
BranchScopes == {"unbound", "worker", "isolated", "ssr", "plain"}

\* the approach the fetch branch dispatches to
ApproachOf(scope) ==
  CASE scope = "worker" -> "NonIsoWorkerApproach"
    [] scope = "isolated" -> "IsoStreamingApproach"
    [] scope = "ssr" -> "NonNodeSSRApproach"
    [] OTHER -> "NonIsoFallbackApproach"

\* state.progress an approach sets before its first await
EntryProgress(approach) ==
  CASE approach = "IsoStreamingApproach" -> 10
    [] approach = "IsoCompileInstantiateApproach" -> 5
    [] approach = "cached" -> 10
    [] OTHER -> 0

\* some earlier loadWasm(k, _) has returned true
LoadedBefore(k) ==
  \E i \in DOMAIN keyedCalls :
    /\ keyedCalls[i].key = k
    /\ keyedCalls[i].pc = "done"
    /\ keyedCalls[i].result = TRUE

\* the catch blocks of loadWasm: the error is stored, the call returns false
KeyedCatch(st, msg) == [st EXCEPT !.error = msg, !.isLoading = FALSE]

\* the end of every approach and of every cached instantiation
KeyedLoaded(st, from) ==
  [st EXCEPT !.wasiModule = from, !.progress = 100, !.isLoading = FALSE]

\* what the statement after the fetch branch's if/else chain does to the
\* registry: every arm of the chain returns, so control never reaches
\* WasiLoader.moduleRegistry.set(key, module) and the registry stays as it is
RegistryAfterLoad(reg, k, from) == reg

\* WasiLoader.loadWasm(k, u) up to its first await
keyedLoadWasm(k, u, scope) ==
  /\ Len(keyedCalls) < MaxKeyedLoads
  /\ LET st == [KeyedReset EXCEPT !.url = u]
         call == [key |-> k, url |-> u, fetches |-> 0,
                  loadedBefore |-> LoadedBefore(k)]
     IN IF k \in DOMAIN moduleRegistry
        THEN /\ keyedState' = [st EXCEPT !.progress = EntryProgress("cached")]
             /\ keyedCalls' = Append(keyedCalls,
                  call @@ [pc |-> "instantiate", approach |-> "cached",
                           result |-> FALSE])
        ELSE IF scope = "unbound"
        THEN /\ keyedState' = KeyedCatch(st, "ReferenceError")
             /\ keyedCalls' = Append(keyedCalls,
                  call @@ [pc |-> "done", approach |-> "none", result |-> FALSE])
        ELSE /\ keyedState' =
                  [st EXCEPT !.progress = EntryProgress(ApproachOf(scope))]
             /\ keyedCalls' = Append(keyedCalls,
                  call @@ [pc |-> "fetch", approach |-> ApproachOf(scope),
                           result |-> FALSE])
  /\ UNCHANGED moduleRegistry
  /\ UNCHANGED keyedFrame

\* an approach after its fetch: the bytes of its url arrived and were
\* compiled (ok), or the fetch or the compilation threw.  Only a failure of
\* IsoStreamingApproach is caught by the dispatch, which then starts
\* IsoCompileInstantiateApproach
keyedFetched(i, ok) ==
  /\ i \in DOMAIN keyedCalls
  /\ keyedCalls[i].pc = "fetch"
  /\ IF ok
     THEN /\ keyedCalls' = [keyedCalls EXCEPT ![i].pc = "instantiate",
                                              ![i].fetches = @ + 1]
          /\ keyedState' =
               IF keyedCalls[i].approach = "IsoStreamingApproach"
               THEN [keyedState EXCEPT !.progress = 50]
               ELSE IF keyedCalls[i].approach = "IsoCompileInstantiateApproach"
               THEN [keyedState EXCEPT !.progress = 60]
               ELSE keyedState
     ELSE IF keyedCalls[i].approach = "IsoStreamingApproach"
     THEN /\ keyedCalls' =
               [keyedCalls EXCEPT ![i].approach = "IsoCompileInstantiateApproach"]
          /\ keyedState' = [keyedState EXCEPT
               !.progress = EntryProgress("IsoCompileInstantiateApproach")]
     ELSE /\ keyedCalls' = [keyedCalls EXCEPT ![i].pc = "done"]
          /\ keyedState' = KeyedCatch(keyedState, "Error")
  /\ UNCHANGED moduleRegistry
  /\ UNCHANGED keyedFrame

\* the instantiation of a call settles: the approach (or the cached
\* instantiation) stores the module and returns true, or it threw and the
\* catch block returns false
keyedInstantiated(i, ok) ==
  /\ i \in DOMAIN keyedCalls
  /\ keyedCalls[i].pc = "instantiate"
  /\ keyedCalls' = [keyedCalls EXCEPT ![i].pc = "done", ![i].result = ok]
  /\ keyedState' =
       IF ok THEN KeyedLoaded(keyedState, keyedCalls[i].url)
       ELSE KeyedCatch(keyedState, "Error")
  /\ moduleRegistry' =
       IF ok /\ keyedCalls[i].approach # "cached"
       THEN RegistryAfterLoad(moduleRegistry, keyedCalls[i].key, keyedCalls[i].url)
       ELSE moduleRegistry
  /\ UNCHANGED keyedFrame

NextKeyed ==
  \/ \E k \in RegistryKeys, u \in WasmUrls, scope \in BranchScopes :
       keyedLoadWasm(k, u, scope)
  \/ \E i \in 1..MaxKeyedLoads, ok \in BOOLEAN : keyedFetched(i, ok)
  \/ \E i \in 1..MaxKeyedLoads, ok \in BOOLEAN : keyedInstantiated(i, ok)

SpecKeyed == InitLife /\ [][NextKeyed]_vars

(***************************************************************************)
(* ModernWorkerManager (src/ModernWorkerManager.ts): init, boot,           *)
(* reverseSearch, terminate and dispose of one manager.  init and boot are *)
(* async: each runs to its next await in one step, so calls may overlap.   *)
(***************************************************************************)
MaxManagerCalls == 3

\* ModernWorkerManager.isReady()
ManagerIsReady(init, api) == init /\ api # 0

\* the Workers constructed and not terminated
LiveWorkers == {w \in DOMAIN workers : workers[w] = "live"}

\* ModernWorkerManager.terminate(): what it leaves of worker, workerApi,
\* initialized and the Workers
TerminateStops(ws, w) == IF w # 0 THEN [ws EXCEPT ![w] = "terminated"] ELSE ws

Terminated ==
  [worker |-> 0,
   workerApi |-> IF worker # 0 THEN 0 ELSE workerApi,
   initialized |-> IF worker # 0 THEN FALSE ELSE initialized,
   workers |-> TerminateStops(workers, worker)]

\* init() up to `await import(...)`: outside a browser it throws at once;
\* a manager that holds a worker terminates it first
managerInit(inBrowser) ==
  /\ Len(managerCalls) < MaxManagerCalls
  /\ IF inBrowser
     THEN /\ worker' = Terminated.worker
          /\ workerApi' = Terminated.workerApi
          /\ initialized' = Terminated.initialized
          /\ workers' = Terminated.workers
          /\ bootedSince' = IF worker # 0 THEN FALSE ELSE bootedSince
          /\ managerCalls' = Append(managerCalls,
               [op |-> "init", pc |-> "import", target |-> 0, result |-> "pending"])
     ELSE /\ managerCalls' = Append(managerCalls,
               [op |-> "init", pc |-> "done", target |-> 0, result |-> "rejected"])
          /\ UNCHANGED <<worker, workerApi, initialized, workers, bootedSince>>
  /\ managerLast' = "init"
  /\ UNCHANGED searchLog
  /\ UNCHANGED managerFrame

\* boot(wasmBuffer) up to its first await: without a workerApi it calls
\* init() (which, the manager holding no worker then, goes straight to the
\* import); with one it calls initialize on the worker
managerBoot(inBrowser) ==
  /\ Len(managerCalls) < MaxManagerCalls
  /\ managerCalls' = Append(managerCalls,
       IF workerApi # 0
       THEN [op |-> "boot", pc |-> "initialize", target |-> workerApi,
             result |-> "pending"]
       ELSE IF inBrowser
       THEN [op |-> "boot", pc |-> "import", target |-> 0, result |-> "pending"]
       ELSE [op |-> "boot", pc |-> "done", target |-> 0, result |-> "rejected"])
  /\ worker' = IF workerApi = 0 /\ inBrowser THEN Terminated.worker ELSE worker
  /\ workerApi' = IF workerApi = 0 /\ inBrowser THEN Terminated.workerApi ELSE workerApi
  /\ initialized' =
       IF workerApi = 0 /\ inBrowser THEN Terminated.initialized ELSE initialized
  /\ workers' = IF workerApi = 0 /\ inBrowser THEN Terminated.workers ELSE workers
  /\ bootedSince' =
       IF workerApi = 0 /\ inBrowser /\ worker # 0 THEN FALSE ELSE bootedSince
  /\ managerLast' = "boot"
  /\ UNCHANGED searchLog
  /\ UNCHANGED managerFrame

\* init() after the import: it constructs a Worker, stores it and its
\* Comlink wrapper, and returns; or the import threw and init() rejects, and
\* with it the boot() that called it
managerImported(i, ok) ==
  /\ i \in DOMAIN managerCalls
  /\ managerCalls[i].pc = "import"
  /\ IF ok
     THEN /\ workers' = Append(workers, "live")
          /\ worker' = Len(workers) + 1
          /\ workerApi' = Len(workers) + 1
          /\ managerCalls' = [managerCalls EXCEPT
               ![i].pc = IF managerCalls[i].op = "boot" THEN "afterInit" ELSE "done",
               ![i].result = IF managerCalls[i].op = "boot" THEN "pending"
                             ELSE "fulfilled"]
     ELSE /\ managerCalls' = [managerCalls EXCEPT ![i].pc = "done",
                                                 ![i].result = "rejected"]
          /\ UNCHANGED <<workers, worker, workerApi>>
  /\ managerLast' = "init"
  /\ UNCHANGED <<initialized, bootedSince, searchLog>>
  /\ UNCHANGED managerFrame

\* boot() after `await this.init()`: without a workerApi it throws, with one
\* it calls initialize on the worker
managerBootContinues(i) ==
  /\ i \in DOMAIN managerCalls
  /\ managerCalls[i].pc = "afterInit"
  /\ managerCalls' =
       IF workerApi = 0
       THEN [managerCalls EXCEPT ![i].pc = "done", ![i].result = "rejected"]
       ELSE [managerCalls EXCEPT ![i].pc = "initialize", ![i].target = workerApi]
  /\ managerLast' = "boot"
  /\ UNCHANGED <<worker, workerApi, initialized, workers, bootedSince, searchLog>>
  /\ UNCHANGED managerFrame

\* boot() after `await initialize(...)`: the worker answered (a terminated
\* worker never does); on success initialized is set, on failure boot rejects
managerInitialized(i, ok) ==
  /\ i \in DOMAIN managerCalls
  /\ managerCalls[i].pc = "initialize"
  /\ workers[managerCalls[i].target] = "live"
  /\ managerCalls' = [managerCalls EXCEPT
       ![i].pc = "done", ![i].result = IF ok THEN "fulfilled" ELSE "rejected"]
  /\ initialized' = IF ok THEN TRUE ELSE initialized
  /\ bootedSince' = IF ok THEN TRUE ELSE bootedSince
  /\ managerLast' = "boot"
  /\ UNCHANGED <<worker, workerApi, workers, searchLog>>
  /\ UNCHANGED managerFrame

\* reverseSearch(config): the guard, and the call of the worker behind it
managerReverseSearch ==
  /\ searchLog' =
       [outcome |-> IF workerApi = 0 \/ ~initialized THEN "not initialized"
                    ELSE "contacted",
        booted |-> bootedSince,
        ready |-> ManagerIsReady(initialized, workerApi)]
  /\ managerLast' = "reverseSearch"
  /\ UNCHANGED <<worker, workerApi, initialized, workers, managerCalls, bootedSince>>
  /\ UNCHANGED managerFrame

\* terminate(), and dispose(), which only calls it
managerTerminate(viaDispose) ==
  /\ worker' = Terminated.worker
  /\ workerApi' = Terminated.workerApi
  /\ initialized' = Terminated.initialized
  /\ workers' = Terminated.workers
  /\ bootedSince' = FALSE
  /\ managerLast' = "terminate"
  /\ UNCHANGED <<managerCalls, searchLog>>
  /\ UNCHANGED managerFrame

NextManager ==
  \/ \E b \in BOOLEAN : managerInit(b)
  \/ \E b \in BOOLEAN : managerBoot(b)
  \/ \E i \in 1..MaxManagerCalls, ok \in BOOLEAN : managerImported(i, ok)
  \/ \E i \in 1..MaxManagerCalls : managerBootContinues(i)
  \/ \E i \in 1..MaxManagerCalls, ok \in BOOLEAN : managerInitialized(i, ok)
  \/ managerReverseSearch
  \/ \E d \in BOOLEAN : managerTerminate(d)

SpecManager == InitLife /\ [][NextManager]_vars

(***************************************************************************)
(* WasiLoader (src/wasi-loader.svelte.ts): loadWasm(url) of one loader.    *)
(* The call runs to its next await in each step, so calls may overlap.     *)
(***************************************************************************)
MaxWasiLoads == 2

\* state.progress as loadWasm sets it before each of its awaits
ProgressBefore(pc) ==
  CASE pc = "import" -> 10
    [] pc = "init" -> 20
    [] pc = "fetch" -> 40
    [] pc = "arrayBuffer" -> 40
    [] pc = "run" -> 70

\* the await after `pc`
AwaitAfter(pc) ==
  CASE pc = "import" -> "init"
    [] pc = "init" -> "fetch"
    [] pc = "fetch" -> "arrayBuffer"
    [] pc = "arrayBuffer" -> "run"

\* state.isReady
WasiIsReady(st) == ~st.isLoading /\ st.error = "null" /\ st.wasiModule # "null"

\* the reset at the top of loadWasm, up to the first await
WasiStarted(st, u) ==
  [url |-> u, isLoading |-> TRUE, progress |-> ProgressBefore("import"),
   error |-> "null", wasiModule |-> "null"]

\* the end of the try block: what loadWasm writes before `return true`
WasiStored(st, u) ==
  [st EXCEPT !.wasiModule = u, !.progress = 100, !.isLoading = FALSE]

\* the catch block: what loadWasm writes before `return false`
WasiFailed(st, msg) ==
  [st EXCEPT !.error = msg, !.isLoading = FALSE, !.progress = 0,
             !.wasiModule = "null"]

\* loadWasm(u) up to its first await; outside a browser it returns false
\* and touches nothing
wasiLoadWasm(u, inBrowser) ==
  /\ Len(wasiCalls) < MaxWasiLoads
  /\ IF inBrowser
     THEN /\ wasiState' = WasiStarted(wasiState, u)
          /\ wasiCalls' = Append(wasiCalls,
               [url |-> u, browser |-> TRUE, pc |-> "import", result |-> FALSE,
                left |-> wasiState])
     ELSE /\ wasiState' = wasiState
          /\ wasiCalls' = Append(wasiCalls,
               [url |-> u, browser |-> FALSE, pc |-> "done", result |-> FALSE,
                left |-> wasiState])
  /\ UNCHANGED wasiFrame

\* one await of call i settles: the awaited promise is fulfilled and the
\* call runs to its next await, or to `return true` after run(); or it is
\* rejected (or the response is not ok) and the catch block returns false
wasiContinues(i, ok) ==
  /\ i \in DOMAIN wasiCalls
  /\ wasiCalls[i].pc # "done"
  /\ LET c == wasiCalls[i]
         st == IF ~ok THEN WasiFailed(wasiState, "Error")
               ELSE IF c.pc = "run" THEN WasiStored(wasiState, c.url)
               ELSE [wasiState EXCEPT !.progress = ProgressBefore(AwaitAfter(c.pc))]
     IN /\ wasiState' = st
        /\ wasiCalls' = [wasiCalls EXCEPT ![i] =
             IF ok /\ c.pc # "run"
             THEN [c EXCEPT !.pc = AwaitAfter(c.pc)]
             ELSE [c EXCEPT !.pc = "done", !.result = ok, !.left = st]]
  /\ UNCHANGED wasiFrame

NextWasi ==
  \/ \E u \in WasmUrls, b \in BOOLEAN : wasiLoadWasm(u, b)
  \/ \E i \in 1..MaxWasiLoads, ok \in BOOLEAN : wasiContinues(i, ok)

SpecWasi == InitLife /\ [][NextWasi]_vars

(***************************************************************************)
(* The worker runtime's ModernWorkerManager                                *)
(* (src/LegacyApproach/go-runtime.worker.ts): initialize, loadAndRun and   *)
(* reset, the timers its ModernGo objects schedule, and the guest steps    *)
(* those timers resume.                                                    *)
(***************************************************************************)
MaxWorkerInstances == 2

MaxResets == 2

MaxWorkerTimers == 2

\* what the guest does while it runs (in the entry call or in a resume):
\* it blocks, it schedules a timeout and blocks, or it exits
GuestSteps == {"blocks", "schedules", "exits"}

\* runtime.scheduleTimeoutEvent on ModernGo g
GoSchedules(g) ==
  [g EXCEPT !.timers = @ \cup {g.nextId}, !.nextId = @ + 1]

\* runtime.wasmExit on ModernGo g: exited is set and every timeout cleared
GoExits(g) == [g EXCEPT !.exited = TRUE, !.timers = {}]

\* ModernGo g after its guest ran one step
GoAfter(g, step) ==
  CASE step = "schedules" -> GoSchedules(g)
    [] step = "exits" -> GoExits(g)
    [] OTHER -> g

\* the manager state after the guest of any of its ModernGo objects ran one
\* step: wasmExit reports into the manager it was constructed with
WmAfter(st, step) ==
  IF step = "exits"
  THEN [st EXCEPT !.hasExited = TRUE, !.isRunning = FALSE, !.lastOperation = "exit"]
  ELSE st

\* what reset() does to the timeouts of the ModernGo it discards: nothing,
\* it only constructs a new ModernGo
DiscardedGo(g) == g

\* ModernWorkerManager.initialize()
workerInitialize ==
  /\ wmState' = [wmState EXCEPT !.isInitialized = TRUE, !.error = "null",
                                !.lastOperation = "initialize"]
  /\ UNCHANGED <<goInstance, gos, wmInstances, timerLog>>
  /\ UNCHANGED resetFrame

\* ModernWorkerManager.loadAndRun(wasmBytes): compile, instantiate and
\* goInstance.run(instance) up to its `await exitPromise`, with what the
\* guest does in its entry call; or compile / instantiate threw
workerLoadAndRun(ok, step) ==
  /\ wmInstances < MaxWorkerInstances
  /\ step = "schedules" => gos[goInstance].nextId <= MaxWorkerTimers
  /\ IF ok
     THEN /\ wmInstances' = wmInstances + 1
          /\ gos' = [gos EXCEPT ![goInstance] =
               GoAfter([@ EXCEPT !._inst = wmInstances + 1], step)]
          /\ wmState' = WmAfter(
               [wmState EXCEPT !.isInitialized = TRUE, !.isRunning = TRUE,
                               !.hasExited = FALSE, !.error = "null",
                               !.lastOperation = "run",
                               !._wasmInstance = wmInstances + 1], step)
     ELSE /\ wmState' = [wmState EXCEPT !.error = "Error", !.isRunning = FALSE]
          /\ UNCHANGED <<gos, wmInstances>>
  /\ UNCHANGED <<goInstance, timerLog>>
  /\ UNCHANGED resetFrame

\* the host timer of timeout `id` of ModernGo n fires: the callback deletes
\* the id and calls _resume of that ModernGo, which throws when it has
\* exited or has no instance and otherwise calls the guest's resume export
workerTimerFires(n, id, step) ==
  /\ n \in DOMAIN gos
  /\ id \in gos[n].timers
  /\ step = "schedules" => gos[n].nextId <= MaxWorkerTimers
  /\ LET g == [gos[n] EXCEPT !.timers = @ \ {id}]
     IN IF g.exited \/ g._inst = 0
        THEN /\ gos' = [gos EXCEPT ![n] = g]
             /\ wmState' = wmState
             /\ timerLog' = [outcome |-> "threw", go |-> n, current |-> goInstance]
        ELSE /\ gos' = [gos EXCEPT ![n] = GoAfter(g, step)]
             /\ wmState' = WmAfter(wmState, step)
             /\ timerLog' = [outcome |-> "resumed", go |-> n, current |-> goInstance]
  /\ UNCHANGED <<goInstance, wmInstances>>
  /\ UNCHANGED resetFrame

\* ModernWorkerManager.reset()
workerReset ==
  /\ Len(gos) <= MaxResets
  /\ wmState' = [WmInitialState EXCEPT !.lastOperation = "reset"]
  /\ gos' = Append([gos EXCEPT ![goInstance] = DiscardedGo(@)], FreshGo)
  /\ goInstance' = Len(gos) + 1
  /\ UNCHANGED <<wmInstances, timerLog>>
  /\ UNCHANGED resetFrame

NextReset ==
  \/ workerInitialize
  \/ \E ok \in BOOLEAN, step \in GuestSteps : workerLoadAndRun(ok, step)
  \/ \E n \in 1..(MaxResets + 1), id \in 1..MaxWorkerTimers, step \in GuestSteps :
       workerTimerFires(n, id, step)
  \/ workerReset

SpecReset == InitLife /\ [][NextReset]_vars

(***************************************************************************)
(* The debug logs: addDebugMessage of the debug logger                     *)
(* (src/unnamed/part_000) and debugLog of the runtime                      *)
(* (src/go-runtime.svelte.ts).                                             *)
(***************************************************************************)
MAX_LOGS == 40

MaxRuntimeLogs == 50

MaxLogCalls == 52

MaxDirectCalls == 2

\* Array.prototype.slice(-n) of an array longer than n
SliceLast_First(s, n) == SubSeq(s, 1, n)

SliceLast(s, n) == SubSeq(s, Len(s) - n + 1, Len(s))

\* the update function addDebugMessage passes to debugMessages.update
Recorded(messages, m) ==
  LET newMessages == Append(messages, m)
  IN IF Len(newMessages) > MAX_LOGS THEN SliceLast(newMessages, MAX_LOGS)
     ELSE newMessages

\* goRuntimeState.logs after debugLog added a line
Logged(lines, m) ==
  LET added == Append(lines, m)
  IN IF Len(added) > MaxRuntimeLogs THEN SliceLast(added, MaxRuntimeLogs)
     ELSE added

\* addDebugMessage(message, level) called directly: outside a browser it
\* returns at once
addDebugMessage(inBrowser) ==
  /\ logSerial < MaxLogCalls
  /\ directCalls < MaxDirectCalls
  /\ IF inBrowser
     THEN /\ logSerial' = logSerial + 1
          /\ directCalls' = directCalls + 1
          /\ debugMessages' = Recorded(debugMessages, logSerial + 1)
          /\ debugHistory' = Append(debugHistory, logSerial + 1)
     ELSE UNCHANGED <<logSerial, directCalls, debugMessages, debugHistory>>
  /\ UNCHANGED <<logs, logHistory>>
  /\ UNCHANGED logFrame

\* debugLog(message, level) of the runtime: outside a browser or with
\* debugEnabled off it returns at once; otherwise it adds the line to
\* goRuntimeState.logs and hands the message to addDebugMessage
debugLog(inBrowser, debugEnabled) ==
  /\ logSerial < MaxLogCalls
  /\ IF inBrowser /\ debugEnabled
     THEN /\ logSerial' = logSerial + 1
          /\ logs' = Logged(logs, logSerial + 1)
          /\ logHistory' = Append(logHistory, logSerial + 1)
          /\ debugMessages' = Recorded(debugMessages, logSerial + 1)
          /\ debugHistory' = Append(debugHistory, logSerial + 1)
     ELSE UNCHANGED <<logSerial, logs, logHistory, debugMessages, debugHistory>>
  /\ UNCHANGED directCalls
  /\ UNCHANGED logFrame

NextLogs ==
  \/ \E b \in BOOLEAN : addDebugMessage(b)
  \/ \E b \in BOOLEAN, d \in BOOLEAN : debugLog(b, d)

SpecLogs == InitLife /\ [][NextLogs]_vars

(***************************************************************************)
(* Handle Table properties                                                 *)
(***************************************************************************)
\* the ids whose reference count is positive: the handles the guest may hold
LiveIds == {id \in DOMAIN _goRefCounts : IsPositive(_goRefCounts[id])}

\* the slot the guest holds for live id `id`
HeldSlot(id) == HandleSlot(TypeFlag(interned[id]), id)

\* the reverse map gives no id to two values
IdsInjective == \A v, w \in DOMAIN _ids : v # w => _ids[v] # _ids[w]

\* a step binds an id to another value only if the id was not live before it
RebindOnlyWhenReleased ==
  \A id \in DOMAIN interned :
    interned'[id] # interned[id] => id \notin LiveIds

\* C1: after any sequence of storeValue and finalizeRef calls no two live
\* values share a handle id (the reverse map is injective and every live id
\* resolves to the one value it was handed to), and an id is bound to a
\* different value only by a step that starts with the id fully released.
C1_IdNeverShared ==
  /\ [](IdsInjective /\ \A v \in DOMAIN _ids : _ids[v] \in LiveIds /\ interned[_ids[v]] = v)
  /\ [][RebindOnlyWhenReleased]_vars

\* C1 witness: id 7 has been handed to two different values, one after the
\* other, and both values are live now (under different ids).
C1_Witness ==
  /\ 7 \in DOMAIN handedOut
  /\ Cardinality(handedOut[7]) = 2
  /\ DynValues \subseteq DOMAIN _ids

\* C2: every live handle resolves to the value it was interned for, in every
\* reachable state (so storeValue/finalizeRef traffic on other values never
\* disturbs it), and the slot storeValue has just written decodes to the
\* value that was stored.
C2_HandleRoundTrip ==
  /\ \A id \in LiveIds : loadValue(HeldSlot(id)) = interned[id]
  /\ (lastOp = "storeValue" /\ BitsAreNaN(slot)) => loadValue(slot) = interned[slot.lo]

\* C2 witness: objA is held twice under id 8 after id 7, first given to fnC,
\* was released: there has been intern and release traffic on another value.
C2_Witness ==
  /\ lastOp = "finalizeRef"
  /\ "objA" \in DOMAIN _ids /\ _ids["objA"] = 8
  /\ _goRefCounts[8] = Num(2)
  /\ loadValue(HeldSlot(8)) = "objA"
  /\ _idPool = <<7>>

\* the ids that have been released as often as they were interned
FullyReleased ==
  {id \in DOMAIN _goRefCounts : id >= NSentinels /\ IsZero(_goRefCounts[id])}

\* C3 (as claimed): resolving a fully released id, before it is reused,
\* fails with UnknownHandle instead of returning a value.
C3_ReleasedResolveFails ==
  \A id \in FullyReleased : loadValue(HeldSlot(id)) = "UnknownHandle"

\* C4: ids 0-6 always resolve to NaN, 0, null, true, false, the global object
\* and the bridge, none of them is ever in the free pool, and a finalizeRef
\* naming one of them changes nothing of the Handle Table.
C4_SingletonStability ==
  /\ [](\A i \in 0..(NSentinels - 1) :
          /\ loadValue(HandleSlot(TypeFlag(SentinelValues[i + 1]), i)) = SentinelValues[i + 1]
          /\ \A k \in 1..Len(_idPool) : _idPool[k] # i)
  /\ [][lastOp' = "finalizeRef:sentinel" =>
          UNCHANGED <<_values, _goRefCounts, _ids, _idPool>>]_vars

\* C4 witness: a finalizeRef naming a sentinel id has just run, after interns
\* and a release of dynamic ids.
C4_Witness ==
  /\ lastOp = "finalizeRef:sentinel"
  /\ Len(_idPool) > 0
  /\ \E v \in DynValues : v \in DOMAIN _ids

\* the live ids that resolve to value v
LiveIdsOf(v) == {id \in LiveIds : Resolve(_values, id) = v}

\* C5 (as claimed): a host value has at most one live id, sentinel values
\* included.
C5_AtMostOneLiveId == \A v \in HostValues : Cardinality(LiveIdsOf(v)) <= 1

(***************************************************************************)
(* Value Slot properties                                                   *)
(***************************************************************************)
\* undefined, 0, -3.5, NaN, a string and a function
RoundTripValues == {"undefined", "zero", "numNeg3_5", "NaN", "strB", "fnC"}

\* C13: whatever the Handle Table holds, storing one of undefined, 0, -3.5,
\* NaN, a string or a function into a slot and loading that slot gives the
\* value back
C13_SlotRoundTrip == \A v \in RoundTripValues : StoreThenLoad(v) = v

\* the function was stored after an id had been released and reused, and the
\* slot in memory loads as the function
C13_Witness ==
  /\ lastOp = "storeValue"
  /\ slot = HandleSlot(4, 7)
  /\ loadValue(slot) = "fnC"
  /\ 7 \in DOMAIN handedOut
  /\ handedOut[7] = {"objA", "fnC"}

\* every value the encoding is asked about: the sentinels, numbers, undefined,
\* an object, a function, a string and a symbol
EncodeValues == HostValues \cup {"strB", "symD"}

\* the type tag by category: 1 object, 2 string, 3 symbol, 4 function, 0 for
\* every other category, null and the booleans included
TagOfCategory(v) ==
  CASE v \in {"objA", "globalThis", "go"} -> 1
    [] v = "strB" -> 2
    [] v = "symD" -> 3
    [] v = "fnC" -> 4
    [] OTHER -> 0

\* C14: a nonzero, non-NaN number is written as its float64 and undefined as
\* the bits of 0; every other value, NaN and 0 included, is written as
\* low word = the id the Handle Table binds to it, high word = the reserved
\* NaN pattern plus the type tag of its category
C14_EncodingByCategory ==
  \A v \in EncodeValues :
    LET r == StoreResult(v)
    IN  IF v \in PlainNumbers THEN r.slot = F64Bits(v)
        ELSE IF v = "undefined" THEN r.slot = Slot(0, 0, 0)
        ELSE /\ r.slot.sign = 0
             /\ r.slot.hi = nanHead + TagOfCategory(v)
             /\ Resolve(r.values, r.slot.lo) = v

\* null was stored: its slot carries tag 0 and the sentinel id 2
C14_Witness ==
  /\ lastOp = "storeValue"
  /\ slot = Slot(0, nanHead, 2)
  /\ loadValue(slot) = "null"

\* C15: the slot in memory decodes to undefined exactly when its 8 bytes are
\* the bit pattern of 0, to the number itself for every other non-NaN
\* pattern, and through the Handle Table, by its low word, for a NaN pattern
C15_DecodingByPattern ==
  /\ slot = Slot(0, 0, 0) => loadValue(slot) = "undefined"
  /\ (slot # Slot(0, 0, 0) /\ ~BitsAreNaN(slot)) =>
        (loadValue(slot) = F64OfBits(slot) /\ loadValue(slot) # "undefined")
  /\ BitsAreNaN(slot) => loadValue(slot) = Resolve(_values, slot.lo)

(***************************************************************************)
(* Execution lifecycle properties                                          *)
(***************************************************************************)
\* C6: the step on which the exit import fires leaves no timer scheduled:
\* every scheduled timer is cancelled in the host and removed from the
\* scheduled-timer table
C6_ExitCleansTimers ==
  [][(~exited /\ exited') => (_scheduledTimeouts' = {} /\ hostTimers' = {})]_vars

\* C7: a fulfilled promise of run carries the exit code the guest passed to
\* the exit import, and the program has exited
C7_RunResolvesToExitCode ==
  \A k \in Runs : runPromise[k].s = "fulfilled" => (runPromise[k].v \in ExitCodes /\ exited)

\* C8: once the exit import has fired the reported state stays exited and
\* not running
C8_ExitedIsTerminal ==
  exited => (goRuntimeState.hasExited /\ ~goRuntimeState.isRunning)

\* C9: a _resume entered after the exit import has fired fails with
\* 'Go program has already exited', and no step after the exit enters the
\* guest's resume export
C9_ResumeAfterExitFails ==
  /\ [](resumeLog.exitedBefore => resumeLog.outcome = "AlreadyExited")
  /\ [][(exited /\ Len(stack') > Len(stack)) => stack'[Len(stack')].kind = "run"]_vars

\* a timer fired or a wrapper was called after the exit, and _resume threw
C9_Witness ==
  /\ exited
  /\ resumeLog.exitedBefore
  /\ resumeLog.outcome = "AlreadyExited"

\* C10: an outstanding, unconsumed pending event is never replaced by another
\* event: it only changes by being consumed
C10_PendingCallNeverOverwritten ==
  [][(_pendingEvent # 0 /\ _pendingEvent' # _pendingEvent) => _pendingEvent' = 0]_vars

\* C11: the promise run returned is fulfilled only when the exit import has
\* fired: while the guest has not exited, every run's exit promise and
\* returned promise are unresolved, however long the program runs
C11_ResolvedOnlyOnExit ==
  \A k \in Runs :
    (exitPromise[k].s = "fulfilled" \/ runPromise[k].s = "fulfilled") => exited

\* the guest returned from its entry call without exiting, a timer or wrapper
\* resumed it and it returned again: run is still suspended
C11_Witness ==
  /\ ~exited
  /\ HostIdle
  /\ 1 \in Runs
  /\ runPc[1] = "await"
  /\ resumeLog.outcome = "called"
  /\ runPromise[1].s = "pending"

\* C12: after every firing of the exit import, the first and each later one,
\* the scheduled-timer table is empty and no timer is left armed in the host
C12_TimersEmptyAfterEachExit ==
  [][exitCalls' # exitCalls => (_scheduledTimeouts' = {} /\ hostTimers' = {})]_vars

\* the timer ids the timeout import has handed out
IssuedTimers == 1..(_nextCallbackTimeoutID - 1)

\* C22: a timer cancelled through the cancel-timer import leaves the
\* scheduled-timer table and the host's armed timers together, it never comes
\* back into either, so no armed timer (the only thing that calls _resume
\* for a timer) is ever a cancelled one; and cancelling an id that is not in
\* the table leaves the table and the armed timers as they are
C22_CancelledTimerNeverFires ==
  /\ [](hostTimers \subseteq _scheduledTimeouts)
  /\ [](\A id \in 1..MaxTimers : id \notin _scheduledTimeouts =>
           /\ TableAfterClear(id) = _scheduledTimeouts
           /\ HostTimersAfterClear(id) = hostTimers)
  /\ [][\A id \in IssuedTimers : id \notin _scheduledTimeouts =>
           (id \notin _scheduledTimeouts' /\ id \notin hostTimers')]_vars

\* timer 1 was scheduled and cancelled before anything resumed the guest,
\* timer 2 is still armed, and the host is idle
C22_Witness ==
  /\ 1 \in IssuedTimers
  /\ 1 \notin _scheduledTimeouts
  /\ 1 \notin hostTimers
  /\ 2 \in hostTimers
  /\ resumeLog.outcome = "none"
  /\ HostIdle

(***************************************************************************)
(* Value import properties                                                 *)
(***************************************************************************)
CallOps == {"valueCall", "valueInvoke", "valueNew"}

\* C16: the last call-method, invoke-function or construct did not let an
\* exception out of the import: it wrote flag 1 and the value returned into
\* the result slot, or flag 0 and the value thrown
C16_CallWritesResultAndFlag ==
  opLog.op \in CallOps =>
    /\ opLog.outcome \in {"returned", "threw"}
    /\ opLog.flag = (IF opLog.outcome = "returned" THEN "1" ELSE "0")
    /\ loadValue(slot) = opLog.value

\* objA.boom threw a new Error: it sits in the result slot with flag 0
C16_Witness ==
  /\ opLog.op = "valueCall"
  /\ opLog.target = "objA"
  /\ opLog.key = "boom"
  /\ opLog.outcome = "threw"
  /\ opLog.flag = "0"
  /\ loadValue(slot) \in FreshValues

\* the last import was call-method on an object that has no such method
MissingMethodCalled ==
  /\ opLog.op = "valueCall"
  /\ IsObject(opLog.target)
  /\ TypeOf(PropertyOf(opLog.target, opLog.key)) # "function"

\* C17: after call-method on an object lacking the method, the result slot
\* holds the error thrown, the flag is 0, and the program is still running:
\* not exited, the guest still on the stack, run still suspended, no error
\* recorded
C17_MissingMethodKeepsRunning ==
  MissingMethodCalled =>
    /\ opLog.flag = "0"
    /\ opLog.outcome = "threw"
    /\ loadValue(slot) = opLog.value
    /\ opLog.value \in FreshValues
    /\ goRuntimeState.isRunning
    /\ ~goRuntimeState.hasExited
    /\ goRuntimeState.error = "null"
    /\ ~exited
    /\ InGuest

C17_Witness ==
  /\ MissingMethodCalled
  /\ opLog.target = "objA"
  /\ opLog.key = "missing"
  /\ opLog.flag = "0"
  /\ goRuntimeState.isRunning

\* C18: get-property, get-index and get-length never let an exception out of
\* the import, whatever value the operand resolves to
C18_ShapeErrorsStayInBand ==
  opLog.op \in {"valueGet", "valueIndex", "valueLength"} => opLog.outcome # "fault"

\* C19: the last copy between byte arrays wrote flag 1, reported
\* min(destination length, source length) as its count, copied that many
\* bytes from the start of the source and left the rest of the destination,
\* and the source, as they were
C19_CopyClampsToMin ==
  (copyLog.op # "none" /\ copyLog.isBytes) =>
    LET c == IF copyLog.n < Len(copyLog.jsBefore) THEN copyLog.n ELSE Len(copyLog.jsBefore)
    IN  /\ copyLog.flag = "1"
        /\ countField = c
        /\ IF copyLog.op = "copyBytesToGo"
           THEN /\ jsBytes = copyLog.jsBefore
                /\ \A i \in 1..Len(goBytes) :
                     goBytes[i] = IF i <= c THEN copyLog.jsBefore[i] ELSE copyLog.goBefore[i]
           ELSE /\ goBytes = copyLog.goBefore
                /\ \A i \in 1..Len(jsBytes) :
                     jsBytes[i] = IF i <= c THEN copyLog.goBefore[i] ELSE copyLog.jsBefore[i]

\* a one-byte slice received the first byte of the longer Uint8Array
C19_Witness ==
  /\ copyLog.op = "copyBytesToGo"
  /\ copyLog.isBytes
  /\ copyLog.n = 1
  /\ countField = 1
  /\ goBytes[1] = copyLog.jsBefore[1]
  /\ goBytes[2] = copyLog.goBefore[2]

\* C20: the last copy whose host operand was not a byte array wrote flag 0,
\* left 0 in the count field and copied nothing
C20_MismatchReportsZero ==
  (copyLog.op # "none" /\ ~copyLog.isBytes) =>
    /\ copyLog.flag = "0"
    /\ countField = 0
    /\ goBytes = copyLog.goBefore
    /\ jsBytes = copyLog.jsBefore

(***************************************************************************)
(* Memory view properties                                                  *)
(***************************************************************************)
\* C21: no import ever goes through a view of a buffer that growth has
\* detached: whenever an import reads or writes guest memory, this.mem is over
\* the current buffer
C21_NeverStaleView == memLog # "stale"

(***************************************************************************)
(* Reference counts                                                        *)
(***************************************************************************)
\* the step is a storeValue that wrote the handle of v into the slot
InternedNow(v) ==
  /\ lastOp' = "storeValue"
  /\ CrossesAsHandle(v)
  /\ slot' = HandleSlot(TypeFlag(v), slot'.lo)
  /\ ArrGet(interned', slot'.lo, Empty) = v

\* count d is count c raised by one; the infinite count of a sentinel stays
\* infinite
RaisedByOne(c, d) ==
  \/ c.k = "num" /\ d = Num(c.n + 1)
  \/ c = Infinity /\ d = Infinity

\* C24: a storeValue of a value that has an id writes that id and raises its
\* count by exactly one; a storeValue of a value without an id binds the value
\* to an id whose count is exactly 1 afterwards; no other count changes
C24_InternCounts ==
  [][\A v \in HostValues :
       InternedNow(v) =>
         LET id == slot'.lo
         IN  /\ IF MapHas(_ids, v)
                THEN /\ id = _ids[v]
                     /\ RaisedByOne(ArrGet(_goRefCounts, id, Absent),
                                    ArrGet(_goRefCounts', id, Absent))
                ELSE /\ ArrGet(_goRefCounts', id, Absent) = Num(1)
                     /\ ArrGet(_values', id, Empty) = v
                     /\ MapHas(_ids', v) /\ _ids'[v] = id
             /\ \A j \in DOMAIN _goRefCounts :
                  j # id => ArrGet(_goRefCounts', j, Absent) = _goRefCounts[j]]_vars

\* C24 witness: a dynamic value was interned twice and holds count 2 under the
\* id the first storeValue gave it
C24_Witness ==
  /\ lastOp = "storeValue"
  /\ \E v \in DynValues :
       /\ MapHas(_ids, v)
       /\ _goRefCounts[_ids[v]] = Num(2)
       /\ slot = HandleSlot(TypeFlag(v), _ids[v])

\* the ids whose count is a positive number: the dynamic ids a guest holds
FiniteLiveIds ==
  {id \in DOMAIN _goRefCounts : _goRefCounts[id].k = "num" /\ _goRefCounts[id].n > 0}

\* the step lowered the count of id by one and did what the new count asks
\* for: at zero the value left the reverse map, the slot was cleared and the
\* id was pushed on the pool; above zero the entry, the reverse map and the
\* pool stayed as they were
ReleasedByOne(id) ==
  LET c == _goRefCounts[id]
      d == ArrGet(_goRefCounts', id, Absent)
  IN  /\ d = Num(c.n - 1)
      /\ \A j \in DOMAIN _goRefCounts : j # id => ArrGet(_goRefCounts', j, Absent) = _goRefCounts[j]
      /\ IF d.n = 0
         THEN /\ ~MapHas(_ids', _values[id])
              /\ ArrGet(_values', id, Empty) = "null"
              /\ _idPool' = Append(_idPool, id)
         ELSE /\ _values' = _values
              /\ _ids' = _ids
              /\ _idPool' = _idPool

\* C25: a finalizeRef of an id the guest holds lowers that id's count by one;
\* exactly when the count reaches zero the value is removed from the reverse
\* map, the slot is cleared and the id is pushed on the pool; while the count
\* stays positive the entry keeps its value and its id
C25_ReleaseLowersCount ==
  [][lastOp' = "finalizeRef:live" => \E id \in FiniteLiveIds : ReleasedByOne(id)]_vars

\* every id in the pool was bound to a value earlier and is not live now
PoolHoldsReleasedIds ==
  \A i \in 1..Len(_idPool) :
    /\ _idPool[i] >= NSentinels
    /\ ArrGet(handedOut, _idPool[i], {}) # {}
    /\ _idPool[i] \notin LiveIds

\* a storeValue of a value without an id takes the id on top of the pool and
\* removes it; it takes the next integer only from an empty pool
ReuseBeforeAllocation ==
  \A v \in HostValues :
    (InternedNow(v) /\ ~MapHas(_ids, v)) =>
      IF Len(_idPool) > 0
      THEN /\ slot'.lo = _idPool[Len(_idPool)]
           /\ _idPool' = SubSeq(_idPool, 1, Len(_idPool) - 1)
      ELSE /\ slot'.lo = ArrLen(_values)
           /\ _idPool' = <<>>

\* the pool grows only at its top, by the id a finalizeRef has just brought
\* to count zero
PushOnlyOnRelease ==
  Len(_idPool') > Len(_idPool) =>
    \E id \in FiniteLiveIds :
      /\ _idPool' = Append(_idPool, id)
      /\ ArrGet(_goRefCounts', id, Absent) = Num(0)

\* C26: the pool is a stack of released ids: it holds only ids that were
\* bound and released, it grows at the top by the id just released, and a
\* storeValue that needs an id pops the top of a non-empty pool and takes a
\* fresh integer only when the pool is empty
C26_PoolIsLifoOfReleased ==
  /\ []PoolHoldsReleasedIds
  /\ [][ReuseBeforeAllocation /\ PushOnlyOnRelease]_vars

\* the dynamic ids that have been bound to a value at some time
AllocatedIds == {id \in DOMAIN handedOut : id >= NSentinels /\ handedOut[id] # {}}

\* C30: whatever storeValue and finalizeRef calls were made, finalizeRef of
\* released and of never allocated ids included, the pool holds no id twice,
\* no sentinel id and no live id, and every dynamic id that was ever bound
\* is live or in the pool
C30_PoolWellFormed ==
  /\ \A i, j \in 1..Len(_idPool) : i # j => _idPool[i] # _idPool[j]
  /\ \A i \in 1..Len(_idPool) : _idPool[i] >= NSentinels /\ _idPool[i] \notin LiveIds
  /\ \A id \in AllocatedIds : id \in LiveIds \/ \E i \in 1..Len(_idPool) : _idPool[i] = id

\* C30 witness: id 7 was released and finalized once more (count -1), id 9
\* was finalized without ever being allocated (count NaN), a sentinel was
\* finalized last, and id 8 is live
C30_Witness ==
  /\ lastOp = "finalizeRef:sentinel"
  /\ ArrGet(_goRefCounts, 7, Absent) = Num(-1)
  /\ ArrGet(_goRefCounts, 9, Absent) = NaNCount
  /\ 8 \in LiveIds
  /\ _idPool = <<7>>

(***************************************************************************)
(* Two bridges                                                             *)
(***************************************************************************)
\* C27: no step changes the Handle Table, the memory view or the
\* pending-call slot of more than one bridge: an operation on one bridge
\* leaves the structures of the other as they were
C27_BridgesShareNothing ==
  [][\A b, c \in Bridges :
       (b # c /\ BridgeStructures(b)' # BridgeStructures(b)) =>
         BridgeStructures(c)' = BridgeStructures(c)]_vars

\* C27 witness: both bridges run; the first holds objA twice under id 7 with
\* an event pending and a view of its grown memory, the second holds objA
\* once under the same id with no event and its first view
C27_Witness ==
  /\ BridgeStructures(1).mem = 2 /\ BridgeStructures(2).mem = 1
  /\ BridgeStructures(1).pending = 1 /\ BridgeStructures(2).pending = 0
  /\ MapHas(BridgeStructures(1).ids, "objA") /\ BridgeStructures(1).ids["objA"] = 7
  /\ BridgeStructures(1).counts[7] = Num(2)
  /\ MapHas(BridgeStructures(2).ids, "objA") /\ BridgeStructures(2).ids["objA"] = 7
  /\ BridgeStructures(2).counts[7] = Num(1)

\* the execution state the runtime reports for bridge b: goRuntimeState is one
\* object of the module, the same whichever bridge is asked about
ReportedState(b) ==
  [running |-> goRuntimeState.isRunning, exited |-> goRuntimeState.hasExited,
   ready |-> IsReady]

\* C31: the execution state reported for a bridge changes only in a step of
\* that bridge: a run or an exit of the other bridge never changes it
C31_ReportedStatePerBridge ==
  [][\A b \in Bridges :
       ReportedState(b)' # ReportedState(b) => bridges'[b] # bridges[b]]_vars

\* C32: for every value, the slot the canonical storeValue writes is decoded
\* by the worker's _loadValue to what the canonical loadValue returns
C32_WorkerDecodesAlike ==
  \A v \in HostValues :
    Worker_loadValueFrom(StoreResult(v).values, StoreResult(v).slot) = StoreThenLoad(v)

(***************************************************************************)
(* Executor properties                                                     *)
(***************************************************************************)
\* the _performLoad calls whose promise is not yet fulfilled
LoadsInFlight == {k \in 1..Len(performLoad) : performLoad[k].pc # "settled"}

\* the loadWasm call that started load k
StarterOf(k) == CHOOSE c \in 1..Len(callers) : callers[c].load = k /\ callers[c].starter

\* a loadWasm call made while the marker is set starts no _performLoad and
\* awaits the marked load; one made while it is clear starts a new load
CallJoinsOrStarts ==
  Len(callers') > Len(callers) =>
    IF loadPromise # 0
    THEN /\ performLoad' = performLoad
         /\ callers'[Len(callers')].load = loadPromise
         /\ ~callers'[Len(callers')].starter
    ELSE /\ Len(performLoad') = Len(performLoad) + 1
         /\ loadPromise' = Len(performLoad')
         /\ callers'[Len(callers')].load = loadPromise'

C29_NotReadyBeforeLoadAndAfterExit ==
  /\ (Len(guestExited) = 0 \/ guestExited[Len(guestExited)]) => ~IsReady
  /\ (callLog.outcome # "none" /\ (~callLog.loaded \/ callLog.exitedGuest)) =>
       (callLog.outcome = "not ready" /\ ~callLog.ready)

\* C29 witness: a guest was loaded, ran and exited, and the callFunction made
\* after that threw 'WASM not ready'
C29_Witness ==
  /\ callLog.outcome = "not ready"
  /\ callLog.loaded /\ callLog.exitedGuest
  /\ performLoad[1].result = "true"

(***************************************************************************)
(* Argument vector properties                                              *)
(***************************************************************************)
\* the int64 run wrote at the address, or -1 if it wrote none there
CellAt(addr) ==
  IF \E i \in 1..Len(entryLog.cells) : entryLog.cells[i].addr = addr
  THEN (CHOOSE c \in {entryLog.cells[i] : i \in 1..Len(entryLog.cells)} : c.addr = addr).v
  ELSE -1

\* C23: when run has called the entry export, the strings lie one after the
\* other from the scratch offset, each with room for its NUL, the first
\* parameter is the number of arguments and the second is the address of a
\* vector holding the address of every argument
C23_EntryGetsArgcAndArgv ==
  entryLog.called =>
    /\ Len(entryLog.ptrs) = Len(entryLog.args)
    /\ (entryLog.ptrs # <<>> => entryLog.ptrs[1] = ScratchOffset)
    /\ \A i \in 1..(Len(entryLog.ptrs) - 1) :
         entryLog.ptrs[i + 1] >= entryLog.ptrs[i] + ByteLength(entryLog.args[i]) + 1
    /\ entryLog.p0 = Len(entryLog.args)
    /\ \A i \in 1..Len(entryLog.ptrs) : CellAt(entryLog.p1 + 8 * (i - 1)) = entryLog.ptrs[i]

(***************************************************************************)
(* Keyed loader properties                                                 *)
(***************************************************************************)
\* C33: loadWasm(key, url) compiles a module at most once per key: once a
\* load of a key has returned true the registry holds that key, and a
\* loadWasm of the same key made after it neither fetches nor compiles
C33_CompiledOncePerKey ==
  \A i \in DOMAIN keyedCalls :
    /\ (keyedCalls[i].pc = "done" /\ keyedCalls[i].result = TRUE)
         => keyedCalls[i].key \in DOMAIN moduleRegistry
    /\ keyedCalls[i].loadedBefore => keyedCalls[i].fetches = 0

(***************************************************************************)
(* Worker manager properties                                               *)
(***************************************************************************)
\* C34: isReady() is true only when a boot() has succeeded and no
\* terminate() / dispose() was called since; a reverseSearch called in any
\* other state is refused as 'not initialized' without a call of the worker;
\* and terminate() leaves worker, workerApi and initialized cleared
C34_ReadyOnlyWhenBooted ==
  /\ ManagerIsReady(initialized, workerApi) => bootedSince
  /\ (searchLog.outcome # "none" /\ ~searchLog.booted)
       => searchLog.outcome = "not initialized"
  /\ managerLast = "terminate"
       => (worker = 0 /\ workerApi = 0 /\ ~initialized)

\* C35: the manager never has two live workers: a Worker it replaces was
\* terminated before
C35_OneLiveWorker == Cardinality(LiveWorkers) <= 1

(***************************************************************************)
(* WasiLoader properties                                                   *)
(***************************************************************************)
\* C36: in a browser every loadWasm call returns with isLoading false; one
\* that returns true leaves the module set, error null and progress 100
\* (isReady true), one that returns false leaves the error set, the module
\* null and progress 0 (isReady false)
C36_ReturnMatchesState ==
  \A i \in DOMAIN wasiCalls :
    LET c == wasiCalls[i] IN
      (c.pc = "done" /\ c.browser) =>
        /\ ~c.left.isLoading
        /\ c.result => /\ c.left.wasiModule # "null"
                       /\ c.left.error = "null"
                       /\ c.left.progress = 100
                       /\ WasiIsReady(c.left)
        /\ ~c.result => /\ c.left.error # "null"
                        /\ c.left.wasiModule = "null"
                        /\ c.left.progress = 0
                        /\ ~WasiIsReady(c.left)

\* C37: once every loadWasm call on the loader has settled, a stored module
\* is the one loaded from the loader's current url
C37_ModuleOfCurrentUrl ==
  ((\A i \in DOMAIN wasiCalls : wasiCalls[i].pc = "done")
     /\ wasiState.wasiModule # "null")
    => wasiState.wasiModule = wasiState.url

(***************************************************************************)
(* Worker runtime reset properties                                         *)
(***************************************************************************)
\* C38: reset() leaves the manager state as the constructor did (apart from
\* lastOperation) and the manager with a fresh ModernGo; and no timer of a
\* ModernGo the manager has discarded gets as far as the guest's resume
C38_ResetDiscardsOldGo ==
  [][/\ Len(gos') > Len(gos)
          => /\ [wmState' EXCEPT !.lastOperation = "null"] = WmInitialState
             /\ gos'[goInstance'] = FreshGo
     /\ timerLog'.outcome = "resumed" => timerLog'.go = timerLog'.current]_vars

(***************************************************************************)
(* Debug log properties                                                    *)
(***************************************************************************)
\* the last n entries of history h (all of them when it has fewer), in order
LatestOf(h, n) ==
  LET k == IF Len(h) < n THEN Len(h) ELSE n
  IN [i \in 1..k |-> h[Len(h) - k + i]]

\* C39: after any sequence of log calls the debugMessages store holds at
\* most 40 messages and the runtime's logs at most 50, and each holds the
\* latest messages recorded into it, in the order they were recorded
C39_LogsKeepLatest ==
  /\ Len(debugMessages) <= 40
  /\ Len(logs) <= 50
  /\ debugMessages = LatestOf(debugHistory, 40)
  /\ logs = LatestOf(logHistory, 50)

\* both logs have dropped their oldest entries
C39_Witness ==
  /\ Len(debugHistory) > 40
  /\ Len(logHistory) > 50
  /\ Len(logHistory) < Len(debugHistory)
  /\ Len(debugMessages) = 40
  /\ Len(logs) = 50

====
